---------------------------- MODULE Spec2Model ----------------------------
(***************************************************************************)
(* A model of the Sui language tool chain (lexer, parser, interpreter,     *)
(* debugger).  Text is modelled as a sequence of one-character strings, so *)
(* that tokenising, number parsing and display formatting are computed and *)
(* not assumed.  TLC's integers are 32 bits wide, so the interpreter's i64 *)
(* is modelled at the reduced width IntBits; every range test and every    *)
(* wrap-around is stated in terms of I64Min and I64Max.                    *)
(***************************************************************************)
EXTENDS Integers, Sequences, FiniteSets, TLC

(***************************************************************************)
(* Bounds of the model.                                                    *)
(***************************************************************************)
IntBits == 10

MaxDepthCap == 2

MaxRuns == 2

MaxLines == 1

\* The lines a breakpoint is set at are 1..MaxBreakLine.
MaxBreakLine == 2

\* The sources given to the parser have up to MaxSourceLines lines.
MaxSourceLines == 3

MaxSeed == 1

MaxLineLen == 4

I64Max == 2 ^ (IntBits - 1) - 1

I64Min == -(2 ^ (IntBits - 1))

(***************************************************************************)
(* Characters and text.                                                    *)
(***************************************************************************)
DigitChars == <<"0", "1", "2", "3", "4", "5", "6", "7", "8", "9">>

IsDigit(c) == \E d \in 1..10 : DigitChars[d] = c

DigitVal(c) == (CHOOSE d \in 1..10 : DigitChars[d] = c) - 1

IsWhitespace(c) == c \in {" ", "\t", "\r"}

Abs(n) == IF n < 0 THEN -n ELSE n

Sign(n) == IF n < 0 THEN -1 ELSE IF n > 0 THEN 1 ELSE 0

\* Rust's integer division and remainder truncate towards zero.
TruncDiv(a, b) == Sign(a) * Sign(b) * (Abs(a) \div Abs(b))

TruncRem(a, b) == a - b * TruncDiv(a, b)

RECURSIVE NatToStr(_)
NatToStr(n) ==
    IF n < 10 THEN <<DigitChars[n + 1]>>
    ELSE NatToStr(n \div 10) \o <<DigitChars[(n % 10) + 1]>>

\* i64's Display: a minus sign and the decimal digits.
IntToStr(n) == IF n < 0 THEN <<"-">> \o NatToStr(-n) ELSE NatToStr(n)

\* str::parse::<i64>: an optional sign, then one or more ASCII digits; a value
\* outside the integer range is an error.  acc carries the signed value so that
\* the most negative integer parses.
RECURSIVE ParseDigits(_, _, _, _)
ParseDigits(s, k, sg, acc) ==
    IF k > Len(s) THEN [ok |-> TRUE, v |-> acc]
    ELSE IF ~IsDigit(s[k]) THEN [ok |-> FALSE, v |-> 0]
    ELSE LET nxt == acc * 10 + sg * DigitVal(s[k])
         IN  IF nxt > I64Max \/ nxt < I64Min THEN [ok |-> FALSE, v |-> 0]
             ELSE ParseDigits(s, k + 1, sg, nxt)

ParseI64(s) ==
    IF Len(s) = 0 THEN [ok |-> FALSE, v |-> 0]
    ELSE IF s[1] \in {"+", "-"}
         THEN IF Len(s) = 1 THEN [ok |-> FALSE, v |-> 0]
              ELSE ParseDigits(s, 2, IF s[1] = "-" THEN -1 ELSE 1, 0)
         ELSE ParseDigits(s, 1, 1, 0)

\* Result::unwrap_or
UnwrapOr(r, default) == IF r.ok THEN r.v ELSE default

Contains(s, c) == \E k \in 1..Len(s) : s[k] = c

\* The characters of the model's alphabet in ASCII order; CharCode orders them
\* as the byte-wise comparison of Rust strings does.
AsciiOrder ==
    <<"\t", "\r", " ", "!", "\"", "#", "$", "%", "&", "(", ")", "*", "+", ",",
      "-", ".", "/", "0", "1", "2", "3", "4", "5", "6", "7", "8", "9", ":", ";",
      "<", "=", ">", "?", "@", "A", "B", "F", "H", "N", "P", "R", "[", "\\",
      "]", "^", "_", "a", "b", "c", "d", "e", "f", "g", "h", "i", "k", "l",
      "m", "n", "o", "p", "q", "r", "s", "t", "u", "v", "w", "x", "y", "z",
      "{", "|", "}", "~">>

CharCode(c) ==
    IF \E k \in 1..Len(AsciiOrder) : AsciiOrder[k] = c
    THEN CHOOSE k \in 1..Len(AsciiOrder) : AsciiOrder[k] = c
    ELSE 0

RECURSIVE StrLess(_, _)
StrLess(a, b) ==
    IF Len(b) = 0 THEN FALSE
    ELSE IF Len(a) = 0 THEN TRUE
    ELSE IF CharCode(a[1]) # CharCode(b[1]) THEN CharCode(a[1]) < CharCode(b[1])
    ELSE StrLess(Tail(a), Tail(b))

(***************************************************************************)
(* Value (value.rs).  A Float is a rational num/den in lowest terms with   *)
(* den > 0, or NaN; the model's programs stay within exactly representable *)
(* doubles.                                                                *)
(***************************************************************************)
RECURSIVE Gcd(_, _)
Gcd(a, b) == IF b = 0 THEN a ELSE Gcd(b, a % b)

Integer(n) == [t |-> "int", n |-> n]

Float(n, d) ==
    LET g == Gcd(Abs(n), Abs(d))
        sg == IF d < 0 THEN -1 ELSE 1
    IN  [t |-> "float", nan |-> FALSE, num |-> sg * (n \div g), den |-> Abs(d) \div g]

NaN == [t |-> "float", nan |-> TRUE, num |-> 0, den |-> 1]

String(s) == [t |-> "str", s |-> s]

Array(a) == [t |-> "arr", a |-> a]

Null == [t |-> "null"]

\* A panic of the Rust runtime (arithmetic overflow, capacity overflow).
Panic == [t |-> "panic"]

IsPanic(x) == x.t = "panic"

\* impl Default for Value
DefaultValue == Integer(0)

\* str::parse::<f64> over the model's alphabet: an optional sign, digits with
\* an optional decimal point, at least one digit in all.
RECURSIVE ParseFrac(_, _, _, _, _)
ParseFrac(s, k, num, den, seenDot) ==
    IF k > Len(s) THEN [ok |-> TRUE, num |-> num, den |-> den]
    ELSE IF s[k] = "." /\ ~seenDot THEN ParseFrac(s, k + 1, num, den, TRUE)
    ELSE IF ~IsDigit(s[k]) THEN [ok |-> FALSE, num |-> 0, den |-> 1]
    ELSE ParseFrac(s, k + 1, num * 10 + DigitVal(s[k]),
                   IF seenDot THEN den * 10 ELSE den, seenDot)

SignedFloat(body, sg, r) ==
    IF ~(\E k \in 1..Len(body) : IsDigit(body[k])) \/ ~r.ok
    THEN [ok |-> FALSE, v |-> NaN]
    ELSE [ok |-> TRUE, v |-> Float(sg * r.num, r.den)]

UnsignedF64(body, sg) == SignedFloat(body, sg, ParseFrac(body, 1, 0, 1, FALSE))

ParseF64(s) ==
    IF Len(s) > 0 /\ s[1] \in {"+", "-"}
    THEN UnsignedF64(Tail(s), IF s[1] = "-" THEN -1 ELSE 1)
    ELSE UnsignedF64(s, 1)

is_truthy(x) ==
    CASE x.t = "int" -> x.n # 0
      [] x.t = "float" -> x.nan \/ x.num # 0
      [] x.t = "str" -> Len(x.s) > 0
      [] x.t = "arr" -> Len(x.a) > 0
      [] OTHER -> FALSE

\* `f as i64`: truncation towards zero, saturating, NaN to 0.
FloatAsI64(f) ==
    IF f.nan THEN 0
    ELSE LET q == TruncDiv(f.num, f.den)
         IN  IF q > I64Max THEN I64Max ELSE IF q < I64Min THEN I64Min ELSE q

to_int(x) ==
    CASE x.t = "int" -> x.n
      [] x.t = "float" -> FloatAsI64(x)
      [] x.t = "str" -> UnwrapOr(ParseI64(x.s), 0)
      [] x.t = "arr" -> Len(x.a)
      [] OTHER -> 0

to_float(x) ==
    CASE x.t = "int" -> Float(x.n, 1)
      [] x.t = "float" -> x
      [] x.t = "str" -> UnwrapOr(ParseF64(x.s), Float(0, 1))
      [] x.t = "arr" -> Float(Len(x.a), 1)
      [] OTHER -> Float(0, 1)

FAdd(a, b) ==
    IF a.nan \/ b.nan THEN NaN ELSE Float(a.num * b.den + b.num * a.den, a.den * b.den)

FSub(a, b) ==
    IF a.nan \/ b.nan THEN NaN ELSE Float(a.num * b.den - b.num * a.den, a.den * b.den)

FMul(a, b) == IF a.nan \/ b.nan THEN NaN ELSE Float(a.num * b.num, a.den * b.den)

\* Callers test the divisor for zero first, as div and modulo do.
FDiv(a, b) ==
    IF a.nan \/ b.nan \/ b.num = 0 THEN NaN ELSE Float(a.num * b.den, a.den * b.num)

\* f64's %: the remainder of the truncated quotient (fmod).
FRem(a, b) ==
    IF a.nan \/ b.nan \/ b.num = 0 THEN NaN
    ELSE LET q == TruncDiv(a.num * b.den, a.den * b.num)
         IN  FSub(a, FMul(Float(q, 1), b))

FLess(a, b) == ~a.nan /\ ~b.nan /\ a.num * b.den < b.num * a.den

FEq(a, b) == ~a.nan /\ ~b.nan /\ a.num = b.num /\ a.den = b.den

\* Two's-complement wrap-around at the integer width.
Wrap(n) == ((n - I64Min) % (2 ^ IntBits)) + I64Min

\* An i64 `+`, `-` or `*` whose exact result is n: with overflow checks (a
\* debug build) an out-of-range result panics, without them it wraps.
IntResult(n, checks) ==
    IF n >= I64Min /\ n <= I64Max THEN Integer(n)
    ELSE IF checks THEN Panic ELSE Integer(Wrap(n))

add(a, b, checks) ==
    CASE a.t = "int" /\ b.t = "int" -> IntResult(a.n + b.n, checks)
      [] a.t = "str" /\ b.t = "str" -> String(a.s \o b.s)
      [] OTHER -> FAdd(to_float(a), to_float(b))

sub(a, b, checks) ==
    CASE a.t = "int" /\ b.t = "int" -> IntResult(a.n - b.n, checks)
      [] OTHER -> FSub(to_float(a), to_float(b))

mul(a, b, checks) ==
    CASE a.t = "int" /\ b.t = "int" -> IntResult(a.n * b.n, checks)
      [] OTHER -> FMul(to_float(a), to_float(b))

IsZero(f) == ~f.nan /\ f.num = 0

div(a, b) == IF IsZero(to_float(b)) THEN NaN ELSE FDiv(to_float(a), to_float(b))

\* i64's % panics on overflow (the most negative integer by -1) in every build.
modulo(a, b) ==
    IF a.t = "int" /\ b.t = "int" /\ b.n # 0
    THEN IF a.n = I64Min /\ b.n = -1 THEN Panic ELSE Integer(TruncRem(a.n, b.n))
    ELSE IF IsZero(to_float(b)) THEN NaN
    ELSE FRem(to_float(a), to_float(b))

Bool01(p) == Integer(IF p THEN 1 ELSE 0)

lt(a, b) ==
    CASE a.t = "int" /\ b.t = "int" -> Bool01(a.n < b.n)
      [] a.t = "str" /\ b.t = "str" -> Bool01(StrLess(a.s, b.s))
      [] OTHER -> Bool01(FLess(to_float(a), to_float(b)))

gt(a, b) ==
    CASE a.t = "int" /\ b.t = "int" -> Bool01(a.n > b.n)
      [] a.t = "str" /\ b.t = "str" -> Bool01(StrLess(b.s, a.s))
      [] OTHER -> Bool01(FLess(to_float(b), to_float(a)))

\* Float/Float compares |a - b| < f64::EPSILON; two distinct rationals of the
\* model differ by far more than that, so the test is equality.
eq_val(a, b) ==
    CASE a.t = "int" /\ b.t = "int" -> Bool01(a.n = b.n)
      [] a.t = "float" /\ b.t = "float" -> Bool01(FEq(a, b))
      [] a.t = "str" /\ b.t = "str" -> Bool01(a.s = b.s)
      [] a.t = "null" /\ b.t = "null" -> Bool01(TRUE)
      [] OTHER -> Bool01(FEq(to_float(a), to_float(b)))

\* The fractional digits of r/den, 0 <= r < den, by long division.
RECURSIVE FracDigits(_, _, _)
FracDigits(r, den, fuel) ==
    IF r = 0 \/ fuel = 0 THEN <<>>
    ELSE <<DigitChars[((r * 10) \div den) + 1]>> \o FracDigits((r * 10) % den, den, fuel - 1)

\* impl fmt::Display for Value
RECURSIVE Display(_)
Display(x) ==
    CASE x.t = "int" -> IntToStr(x.n)
      [] x.t = "float" ->
            IF x.nan THEN <<"N", "a", "N">>
            ELSE IF x.den = 1 THEN IntToStr(x.num) \o <<".", "0">>
            ELSE (IF x.num < 0 THEN <<"-">> ELSE <<>>)
                 \o NatToStr(Abs(x.num) \div x.den) \o <<".">>
                 \o FracDigits(Abs(x.num) % x.den, x.den, 16)
      [] x.t = "str" -> x.s
      [] x.t = "arr" ->
            LET Items[k \in 0..Len(x.a)] ==
                    IF k = 0 THEN <<>>
                    ELSE Items[k - 1] \o (IF k > 1 THEN <<",", " ">> ELSE <<>>)
                         \o Display(x.a[k])
            IN  <<"[">> \o Items[Len(x.a)] \o <<"]">>
      [] OTHER -> <<"n", "u", "l", "l">>

(***************************************************************************)
(* Lexer (lexer.rs).                                                       *)
(***************************************************************************)
\* The scan of a string literal's inside, from index i to its closing quote or
\* to the end of the line; a backslash takes the next character with it.
RECURSIVE StringEnd(_, _)
StringEnd(chars, i) ==
    IF i <= Len(chars) /\ chars[i] # "\""
    THEN IF chars[i] = "\\" /\ i + 1 <= Len(chars)
         THEN StringEnd(chars, i + 2)
         ELSE StringEnd(chars, i + 1)
    ELSE i

RECURSIVE TokenEnd(_, _)
TokenEnd(chars, i) ==
    IF i <= Len(chars) /\ ~IsWhitespace(chars[i]) THEN TokenEnd(chars, i + 1) ELSE i

RECURSIVE TokenizeFrom(_, _, _)
TokenizeFrom(chars, i, tokens) ==
    IF i > Len(chars) THEN tokens
    ELSE IF IsWhitespace(chars[i]) THEN TokenizeFrom(chars, i + 1, tokens)
    ELSE IF chars[i] = ";" THEN tokens
    ELSE IF chars[i] = "\""
    THEN LET e == StringEnd(chars, i + 1)
             stop == IF e <= Len(chars) THEN e + 1 ELSE e
         IN  TokenizeFrom(chars, stop, Append(tokens, SubSeq(chars, i, stop - 1)))
    ELSE LET stop == TokenEnd(chars, i)
         IN  TokenizeFrom(chars, stop, Append(tokens, SubSeq(chars, i, stop - 1)))

tokenize_line(line) == TokenizeFrom(line, 1, <<>>)

\* str::lines: the text between line feeds, without the carriage return
\* before a line feed and without an empty line after the last line feed.
Lines(code) ==
    LET breaks == {k \in 1..Len(code) : code[k] = "\n"}
        starts == {k \in {1} \cup {b + 1 : b \in breaks} : k <= Len(code)}
        start(j) == CHOOSE k \in starts : Cardinality({x \in starts : x < k}) = j - 1
        stop(k) == IF \E b \in breaks : b >= k
                   THEN CHOOSE b \in breaks : b >= k /\ \A c \in breaks : c >= k => b <= c
                   ELSE Len(code) + 1
        line(k) == IF stop(k) <= Len(code) /\ stop(k) > k /\ code[stop(k) - 1] = "\r"
                   THEN SubSeq(code, k, stop(k) - 2)
                   ELSE SubSeq(code, k, stop(k) - 1)
    IN  [j \in 1..Cardinality(starts) |-> line(start(j))]

NonEmptyTokens(tokens) == Len(tokens) > 0

TokenizeAll(ls) == [k \in 1..Len(ls) |-> tokenize_line(ls[k])]

Lexer_parse(code) == SelectSeq(TokenizeAll(Lines(code)), NonEmptyTokens)

RECURSIVE unescape_string(_)
unescape_string(s) ==
    IF Len(s) = 0 THEN <<>>
    ELSE IF s[1] = "\\" /\ Len(s) >= 2
    THEN (CASE s[2] = "n" -> <<"\n">>
            [] s[2] = "t" -> <<"\t">>
            [] s[2] = "r" -> <<"\r">>
            [] s[2] = "\\" -> <<"\\">>
            [] s[2] = "\"" -> <<"\"">>
            [] OTHER -> <<s[1], s[2]>>) \o unescape_string(SubSeq(s, 3, Len(s)))
    ELSE <<s[1]>> \o unescape_string(Tail(s))

AllDigits(s) == \A k \in 1..Len(s) : IsDigit(s[k])

NumberOrString(val, float, int) ==
    IF Contains(val, ".") /\ float.ok THEN [k |-> "Float", f |-> float.v]
    ELSE IF int.ok THEN [k |-> "Integer", n |-> int.v]
    ELSE [k |-> "String", s |-> val]

parse_value(val) ==
    IF Len(val) > 1 /\ val[1] \in {"v", "g", "a"} /\ AllDigits(Tail(val))
    THEN [k |-> "Variable", var |-> val]
    ELSE IF Len(val) >= 2 /\ val[1] = "\"" /\ val[Len(val)] = "\""
    THEN [k |-> "String", s |-> unescape_string(SubSeq(val, 2, Len(val) - 1))]
    ELSE NumberOrString(val, ParseF64(val), ParseI64(val))

(***************************************************************************)
(* Parser (parser.rs).                                                     *)
(***************************************************************************)
ParseErr(kind, line_num, op, expected, got, msg) ==
    [ok |-> FALSE,
     err |-> [kind |-> kind, line |-> line_num, op |-> op, expected |-> expected,
              got |-> got, msg |-> msg]]

ParseOk(instr) == [ok |-> TRUE, instr |-> instr]

\* check_args: the error when fewer than min operands follow the opcode.
check_args(op, args, min, line_num) ==
    IF Len(args) < min
    THEN ParseErr("MissingArguments", line_num, op, min, Len(args), "")
    ELSE [ok |-> TRUE]

\* The least number of operands of the opcodes that call check_args.
MinArgs(c) ==
    CASE c \in {"+", "-", "*", "/", "%", "<", ">", "~", "&", "|", "]"} -> 3
      [] c \in {"=", "!", "?", "$", "[", "R", "P"} -> 2
      [] c \in {"_", "@", ":", "^", ".", ","} -> 1
      [] OTHER -> 0

ThreeOperands(name, args) ==
    ParseOk([op |-> name, result |-> args[1], a |-> args[2], b |-> args[3]])

InvalidNumber(line_num, tok, msg) == ParseErr("General", line_num, tok, 0, 0, msg)

\* The opcode: the first token when it is a single character.
OpChar(op) == IF Len(op) = 1 THEN op[1] ELSE ""

\* args[k].parse::<i64>()
NumberAt(args, k) == IF k <= Len(args) THEN ParseI64(args[k]) ELSE [ok |-> FALSE, v |-> 0]

\* The arms of parse_line's match on the opcode c: checked is the arm's
\* check_args, n1 and n2 the first two operands parsed as integers.
ParseOp(op, args, c, line_num, checked, n1, n2) ==
    IF ~checked.ok THEN checked
    ELSE
    CASE c = ";" -> ParseOk([op |-> "Comment"])
      [] c = "_" -> ParseOk([op |-> "Import", path |-> args[1]])
      [] c = "=" -> ParseOk([op |-> "Assign", target |-> args[1], value |-> args[2]])
      [] c = "+" -> ThreeOperands("Add", args)
      [] c = "-" -> ThreeOperands("Sub", args)
      [] c = "*" -> ThreeOperands("Mul", args)
      [] c = "/" -> ThreeOperands("Div", args)
      [] c = "%" -> ThreeOperands("Mod", args)
      [] c = "<" -> ThreeOperands("Lt", args)
      [] c = ">" -> ThreeOperands("Gt", args)
      [] c = "~" -> ThreeOperands("Eq", args)
      [] c = "!" -> ParseOk([op |-> "Not", result |-> args[1], a |-> args[2]])
      [] c = "&" -> ThreeOperands("And", args)
      [] c = "|" -> ThreeOperands("Or", args)
      [] c = "?" ->
            IF ~n2.ok THEN InvalidNumber(line_num, args[2], "Invalid label")
            ELSE ParseOk([op |-> "CondJump", cond |-> args[1],
                          label |-> n2.v])
      [] c = "@" ->
            IF ~n1.ok THEN InvalidNumber(line_num, args[1], "Invalid label")
            ELSE ParseOk([op |-> "Jump", label |-> n1.v])
      [] c = ":" ->
            IF ~n1.ok THEN InvalidNumber(line_num, args[1], "Invalid label")
            ELSE ParseOk([op |-> "Label", id |-> n1.v])
      [] c = "#" ->
            IF Len(args) < 3 \/ args[Len(args)] # <<"{">>
            THEN ParseErr("InvalidFunctionDef", line_num, op, 0, 0, "")
            ELSE IF ~n1.ok
            THEN InvalidNumber(line_num, args[1], "Invalid function id")
            ELSE IF ~n2.ok
            THEN InvalidNumber(line_num, args[2], "Invalid argc")
            ELSE ParseOk([op |-> "FuncDef", id |-> n1.v,
                          argc |-> n2.v])
      [] c = "}" -> ParseOk([op |-> "FuncEnd"])
      [] c = "$" ->
            IF ~n2.ok
            THEN InvalidNumber(line_num, args[2], "Invalid function id")
            ELSE ParseOk([op |-> "Call", result |-> args[1],
                          func_id |-> n2.v,
                          args |-> SubSeq(args, 3, Len(args))])
      [] c = "^" -> ParseOk([op |-> "Return", value |-> args[1]])
      [] c = "[" -> ParseOk([op |-> "ArrayCreate", var |-> args[1], size |-> args[2]])
      [] c = "]" ->
            ParseOk([op |-> "ArrayRead", result |-> args[1], arr |-> args[2],
                     idx |-> args[3]])
      [] c = "{" ->
            IF Len(args) >= 3
            THEN ParseOk([op |-> "ArrayWrite", arr |-> args[1], idx |-> args[2],
                          value |-> args[3]])
            ELSE ParseOk([op |-> "Empty"])
      [] c = "." -> ParseOk([op |-> "Output", value |-> args[1]])
      [] c = "," -> ParseOk([op |-> "Input", var |-> args[1]])
      [] c \in {"R", "P"} ->
            ParseOk([op |-> "RustFFI", result |-> args[1], func |-> args[2],
                     args |-> SubSeq(args, 3, Len(args))])
      [] OTHER -> ParseErr("InvalidInstruction", line_num, op, 0, 0, "")

parse_line(tokens, line_num) ==
    IF Len(tokens) = 0 THEN ParseOk([op |-> "Empty"])
    ELSE ParseOp(tokens[1], Tail(tokens), OpChar(tokens[1]), line_num,
                 check_args(tokens[1], Tail(tokens), MinArgs(OpChar(tokens[1])), line_num),
                 NumberAt(Tail(tokens), 1), NumberAt(Tail(tokens), 2))

\* The inner loop of parse: the lines of one function body, to the `}` that
\* brings the depth back to 0 or to the end of the input.
RECURSIVE ParseBody(_, _, _, _, _)
BodyDepth(instr, depth) ==
    CASE instr.op = "FuncDef" -> depth + 1
      [] instr.op = "FuncEnd" -> depth - 1
      [] OTHER -> depth

BodyLine(token_lines, i, line_num, d2, body, r) ==
    IF ~r.ok THEN r
    ELSE ParseBody(token_lines, i + 1, line_num + 1, d2,
                   IF r.instr.op = "FuncEnd" /\ d2 = 0 THEN body
                   ELSE Append(body, r.instr))

ParsedBodyLine(token_lines, i, line_num, depth, body, r) ==
    BodyLine(token_lines, i, line_num,
             IF r.ok THEN BodyDepth(r.instr, depth) ELSE depth, body, r)

ParseBody(token_lines, i, line_num, depth, body) ==
    IF i <= Len(token_lines) /\ depth > 0
    THEN ParsedBodyLine(token_lines, i, line_num, depth, body,
                        parse_line(token_lines[i], line_num))
    ELSE [ok |-> TRUE, i |-> i, line_num |-> line_num, depth |-> depth, body |-> body]

\* The outer loop of parse, from token line i on.
RECURSIVE ParseTop(_, _, _, _, _)
FuncDefLine(token_lines, instructions, functions, def, b) ==
    IF ~b.ok THEN b
    ELSE IF b.depth # 0 THEN ParseErr("UnmatchedBrace", b.line_num, <<>>, 0, 0, "")
    ELSE ParseTop(token_lines, b.i, b.line_num, instructions,
                  Append(functions,
                         [id |-> def.id, arg_count |-> def.argc, body |-> b.body]))

TopLine(token_lines, i, line_num, instructions, functions, r) ==
    IF ~r.ok THEN r
    ELSE IF r.instr.op = "FuncDef"
    THEN FuncDefLine(token_lines, instructions, functions, r.instr,
                     ParseBody(token_lines, i + 1, line_num + 1, 1, <<>>))
    ELSE ParseTop(token_lines, i + 1, line_num + 1,
                  IF r.instr.op = "FuncEnd" THEN instructions
                  ELSE Append(instructions, r.instr),
                  functions)

ParseTop(token_lines, i, line_num, instructions, functions) ==
    IF i > Len(token_lines)
    THEN [ok |-> TRUE, instructions |-> instructions, functions |-> functions]
    ELSE TopLine(token_lines, i, line_num, instructions, functions,
                 parse_line(token_lines[i], line_num))

Parser_parse(code) == ParseTop(Lexer_parse(code), 1, 1, <<>>, <<>>)

Collect(errors, r) == IF r.ok THEN errors ELSE Append(errors, r.err)

RECURSIVE ValidateFrom(_, _, _)
ValidateFrom(token_lines, i, errors) ==
    IF i > Len(token_lines) THEN errors
    ELSE ValidateFrom(token_lines, i + 1,
                      Collect(errors, parse_line(token_lines[i], i)))

validate(code) == ValidateFrom(Lexer_parse(code), 1, <<>>)

(***************************************************************************)
(* Interpreter (runtime.rs).  An interpreter state is a record s of the    *)
(* struct's fields (global_vars, functions, context_stack, context,        *)
(* output, max_stack_depth) together with the state of the call in         *)
(* progress: frames is the stack of active execute_block invocations (and, *)
(* at its bottom, the execute_instruction of run_line), each with its      *)
(* instruction slice, its label table and its cursor i; status is "idle",  *)
(* "running" or "panic"; result is what the last call returned; checks     *)
(* says whether the build has integer overflow checks.                     *)
(***************************************************************************)
DefaultMaxStackDepth == 1000

EmptyMap == [k \in {} |-> DefaultValue]

\* HashMap::insert
Insert(map, key, value) == (key :> value) @@ map

\* HashMap::get(..).cloned().unwrap_or_default()
GetOrDefault(map, key) == IF key \in DOMAIN map THEN map[key] ELSE DefaultValue

\* Context::default()
DefaultContext ==
    [local_vars |-> EmptyMap, args |-> <<>>, return_value |-> DefaultValue,
     returned |-> FALSE]

NoResult == [kind |-> "None"]

RuntimeErr(e, id) == [kind |-> "Err", e |-> e, id |-> id, perr |-> <<>>]

ParseFailure(err) == [kind |-> "Err", e |-> "Parse", id |-> 0, perr |-> <<err>>]

\* Interpreter::new
NewInterpreter(checks) ==
    [global_vars |-> EmptyMap, functions |-> EmptyMap, context_stack |-> <<>>,
     context |-> DefaultContext, output |-> <<>>,
     max_stack_depth |-> DefaultMaxStackDepth,
     frames |-> <<>>, status |-> "idle", result |-> NoResult, checks |-> checks]

set_max_stack_depth(s, depth) == [s EXCEPT !.max_stack_depth = depth]

\* A reset that forgets the saved frames.
ResetKeepsStack(s) ==
    [s EXCEPT !.global_vars = EmptyMap, !.functions = EmptyMap,
              !.context = DefaultContext, !.output = <<>>]

reset(s) ==
    [s EXCEPT !.global_vars = EmptyMap, !.functions = EmptyMap,
              !.context_stack = <<>>, !.context = DefaultContext, !.output = <<>>]

\* var[1..].parse().unwrap_or(0)
VarIndex(var) == UnwrapOr(ParseI64(Tail(var)), 0)

\* The value of the variable with the given prefix and index.
Lookup(s, prefix, idx) ==
    CASE prefix = "v" -> GetOrDefault(s.context.local_vars, idx)
      [] prefix = "g" -> GetOrDefault(s.global_vars, idx)
      [] prefix = "a" -> IF idx < Len(s.context.args) THEN s.context.args[idx + 1]
                         ELSE DefaultValue
      [] OTHER -> DefaultValue

Resolved(s, val, pv) ==
    CASE pv.k = "Variable" -> Lookup(s, val[1], VarIndex(val))
      [] pv.k = "Integer" -> Integer(pv.n)
      [] pv.k = "Float" -> pv.f
      [] OTHER -> String(pv.s)

resolve(s, val) == Resolved(s, val, parse_value(val))

AssignAt(s, prefix, idx, value) ==
    CASE prefix = "v" -> [s EXCEPT !.context.local_vars = Insert(@, idx, value)]
      [] prefix = "g" -> [s EXCEPT !.global_vars = Insert(@, idx, value)]
      [] OTHER -> s

assign(s, var, value) == AssignAt(s, var[1], VarIndex(var), value)

ResolveAll(s, args) == [k \in 1..Len(args) |-> resolve(s, args[k])]

\* The last dot-separated segment of a builtin's name: rsplit('.').next().
RECURSIVE LastSegment(_)
LastSegment(name) ==
    IF Contains(name, ".")
    THEN LastSegment(SubSeq(name, (CHOOSE k \in 1..Len(name) : name[k] = ".") + 1, Len(name)))
    ELSE name

FFloor(f) ==
    LET q == TruncDiv(f.num, f.den)
    IN  IF f.num < 0 /\ q * f.den # f.num THEN q - 1 ELSE q

FCeil(f) ==
    LET q == TruncDiv(f.num, f.den)
    IN  IF f.num > 0 /\ q * f.den # f.num THEN q + 1 ELSE q

\* f64::round: to the nearest integer, halves away from zero.
FRound(f) == Sign(f.num) * ((2 * Abs(f.num) + f.den) \div (2 * f.den))

Clamp(n) == IF n > I64Max THEN I64Max ELSE IF n < I64Min THEN I64Min ELSE n

FirstFloat(args) == IF Len(args) > 0 THEN to_float(args[1]) ELSE Float(0, 1)

\* The greatest (least, with pick = "min") of the arguments as floats; a NaN
\* never replaces the running value.
Better(best, v, pick) ==
    IF pick = "max" THEN (IF FLess(best, v) THEN v ELSE best)
    ELSE (IF FLess(v, best) THEN v ELSE best)

RECURSIVE Extreme(_, _, _, _)
Extreme(args, k, best, pick) ==
    IF k > Len(args) THEN best
    ELSE Extreme(args, k + 1, Better(best, to_float(args[k]), pick), pick)

\* An Integer when the fractional part is zero, else the Float.
IntegerIfWhole(m) == IF ~m.nan /\ m.den = 1 THEN Integer(Clamp(m.num)) ELSE m

\* abs: an Integer when the fractional part is zero, else the Float.
AbsOf(f) ==
    IF ~f.nan /\ f.den = 1 THEN Integer(Clamp(Abs(f.num)))
    ELSE IF f.nan THEN f ELSE [f EXCEPT !.num = Abs(f.num)]

\* (max - min + 1).max(1)
RandRange(span, checks) ==
    IF IsPanic(span) THEN Panic
    ELSE IF IsPanic(IntResult(span.n + 1, checks)) THEN Panic
    ELSE IF IntResult(span.n + 1, checks).n < 1 THEN Integer(1)
    ELSE IntResult(span.n + 1, checks)

\* min + (seed.abs() % range)
RandPick(min, range, seed, checks) ==
    IF IsPanic(range) THEN Panic ELSE IntResult(min + (seed % range.n), checks)

\* The arm of randint: seed is the system clock in nanoseconds, which is not
\* negative.
Randint(args, seed, checks) ==
    LET min == IF Len(args) > 0 THEN to_int(args[1]) ELSE 0
        max == IF Len(args) > 1 THEN to_int(args[2]) ELSE 100
    IN  RandPick(min, RandRange(IntResult(max - min, checks), checks), seed, checks)

\* The arms of call_builtin's match on the function name, x being the first
\* argument as a float.  The builtins of the model are the ones whose results
\* are rationals (sqrt of a perfect square only); the transcendental ones are
\* left out.  rand is what the randint arm yields.
Builtin(func_name, args, x, rand) ==
    CASE func_name = <<"s", "q", "r", "t">> ->
           IF x.nan \/ x.num < 0 THEN NaN
           ELSE Float(CHOOSE r \in 0..x.num : r * r = x.num,
                      CHOOSE r \in 1..x.den : r * r = x.den)
      [] func_name = <<"f", "l", "o", "o", "r">> ->
           Integer(IF x.nan THEN 0 ELSE Clamp(FFloor(x)))
      [] func_name = <<"c", "e", "i", "l">> ->
           Integer(IF x.nan THEN 0 ELSE Clamp(FCeil(x)))
      [] func_name = <<"a", "b", "s">> -> AbsOf(x)
      [] func_name \in {<<"m", "a", "x">>, <<"m", "i", "n">>} ->
           IF Len(args) = 0 THEN Integer(0)
           ELSE IntegerIfWhole(Extreme(args, 2, x,
                                       IF func_name = <<"m", "a", "x">> THEN "max"
                                       ELSE "min"))
      [] func_name = <<"l", "e", "n">> ->
           IF Len(args) = 0 THEN Integer(0)
           ELSE (CASE args[1].t = "str" -> Integer(Len(args[1].s))
                   [] args[1].t = "arr" -> Integer(Len(args[1].a))
                   [] OTHER -> Integer(0))
      [] func_name = <<"i", "n", "t">> ->
           Integer(IF Len(args) > 0 THEN to_int(args[1]) ELSE 0)
      [] func_name = <<"f", "l", "o", "a", "t">> -> x
      [] func_name = <<"s", "t", "r">> ->
           String(IF Len(args) > 0 THEN Display(args[1]) ELSE <<>>)
      [] func_name = <<"r", "a", "n", "d", "i", "n", "t">> -> rand
      [] OTHER -> Integer(0)

\* seed is what the arm of randint reads from the system clock.
call_builtin(func, args, seed, checks) ==
    Builtin(LastSegment(func), args, FirstFloat(args), Randint(args, seed, checks))

\* The label table of execute_block: label id -> position, the last
\* declaration of an id winning.
LabelTable(instructions) ==
    LET at == {k \in 1..Len(instructions) : instructions[k].op = "Label"}
        last(id) == CHOOSE k \in at :
                       /\ instructions[k].id = id
                       /\ \A j \in at : instructions[j].id = id => j <= k
    IN  [id \in {instructions[k].id : k \in at} |-> last(id)]

BlockFrame(instructions) ==
    [kind |-> "block", instructions |-> instructions,
     labels |-> LabelTable(instructions), i |-> 1, brk |-> FALSE]

\* The execute_instruction that run_line makes, outside any block.
LineFrame(instr) ==
    [kind |-> "line", instructions |-> <<instr>>, labels |-> LabelTable(<<>>),
     i |-> 1, brk |-> FALSE]

TopFrame(s) == s.frames[Len(s.frames)]

\* An error leaves every active call through `?`.
Fail(s, err) == [s EXCEPT !.frames = <<>>, !.status = "idle", !.result = err]

\* A panic ends the process.
Abort(s) == [s EXCEPT !.frames = <<>>, !.status = "panic", !.result = NoResult]

NoJump == [some |-> FALSE, label |-> 0]

JumpTo(label) == [some |-> TRUE, label |-> label]

\* A caller that looks the label up in the table of the outermost block.
ContinueOuterLabels(s, cont, jump_label, value) ==
    LET f == TopFrame(s)
        n == Len(s.frames)
    IN  IF f.kind = "line"
        THEN [s EXCEPT !.frames = <<>>, !.status = "idle",
                       !.result = [kind |-> "OkLine", value |-> value]]
        ELSE IF ~cont THEN [s EXCEPT !.frames[n].brk = TRUE]
        ELSE IF jump_label.some /\ jump_label.label \in DOMAIN s.frames[1].labels
        THEN [s EXCEPT !.frames[n].i = s.frames[1].labels[jump_label.label]]
        ELSE [s EXCEPT !.frames[n].i = f.i + 1]

\* What the caller of execute_instruction does with Ok((cont, jump_label)):
\* execute_block breaks, moves the cursor to the label's position or to the
\* next instruction; run_line returns.
Continue(s, cont, jump_label, value) ==
    LET f == TopFrame(s)
        n == Len(s.frames)
    IN  IF f.kind = "line"
        THEN [s EXCEPT !.frames = <<>>, !.status = "idle",
                       !.result = [kind |-> "OkLine", value |-> value]]
        ELSE IF ~cont THEN [s EXCEPT !.frames[n].brk = TRUE]
        ELSE IF jump_label.some /\ jump_label.label \in DOMAIN f.labels
        THEN [s EXCEPT !.frames[n].i = f.labels[jump_label.label]]
        ELSE [s EXCEPT !.frames[n].i = f.i + 1]

\* execute_block's entry: its label table and its cursor at the first
\* instruction.
EnterBlock(s, instructions) ==
    [s EXCEPT !.frames = Append(@, BlockFrame(instructions)), !.status = "running"]

\* A Call whose depth test is `>` where the code has `>=`.
ExecCallOffByOne(s, instr) ==
    IF Len(s.context_stack) > s.max_stack_depth
    THEN Fail(s, RuntimeErr("StackOverflow", 0))
    ELSE IF instr.func_id \notin DOMAIN s.functions
    THEN Fail(s, RuntimeErr("UndefinedFunction", instr.func_id))
    ELSE EnterBlock([s EXCEPT !.context_stack = Append(@, s.context),
                              !.context = [DefaultContext EXCEPT
                                              !.args = ResolveAll(s, instr.args)]],
                    s.functions[instr.func_id].body)

\* A Call whose new context starts with the caller's local variables.
ExecCallKeepsLocals(s, instr) ==
    IF Len(s.context_stack) >= s.max_stack_depth
    THEN Fail(s, RuntimeErr("StackOverflow", 0))
    ELSE IF instr.func_id \notin DOMAIN s.functions
    THEN Fail(s, RuntimeErr("UndefinedFunction", instr.func_id))
    ELSE EnterBlock([s EXCEPT !.context_stack = Append(@, s.context),
                              !.context = [DefaultContext EXCEPT
                                              !.args = ResolveAll(s, instr.args),
                                              !.local_vars = s.context.local_vars]],
                    s.functions[instr.func_id].body)

\* Instruction::Call
ExecCall(s, instr) ==
    IF Len(s.context_stack) >= s.max_stack_depth
    THEN Fail(s, RuntimeErr("StackOverflow", 0))
    ELSE IF instr.func_id \notin DOMAIN s.functions
    THEN Fail(s, RuntimeErr("UndefinedFunction", instr.func_id))
    ELSE EnterBlock([s EXCEPT !.context_stack = Append(@, s.context),
                              !.context = [DefaultContext EXCEPT
                                              !.args = ResolveAll(s, instr.args)]],
                    s.functions[instr.func_id].body)

\* A return that leaves the callee's local variables to the caller.
RestoredWithLocals(s, caller, return_val) ==
    Continue(assign([s EXCEPT !.context =
                                 [s.context_stack[Len(s.context_stack)] EXCEPT
                                     !.local_vars = s.context.local_vars],
                              !.context_stack = SubSeq(@, 1, Len(@) - 1),
                              !.frames = SubSeq(@, 1, Len(@) - 1)],
                    caller.instructions[caller.i].result, return_val),
             TRUE, NoJump, <<>>)

\* The caller's part of Instruction::Call after execute_block has returned
\* Ok: the caller's context is restored and the return value stored.
Restored(s, caller, return_val) ==
    Continue(assign([s EXCEPT !.context = s.context_stack[Len(s.context_stack)],
                              !.context_stack = SubSeq(@, 1, Len(@) - 1),
                              !.frames = SubSeq(@, 1, Len(@) - 1)],
                    caller.instructions[caller.i].result, return_val),
             TRUE, NoJump, <<>>)

\* execute_block returns Ok: to run, which returns the output, or to the
\* Instruction::Call that made it.
ReturnFromBlock(s) ==
    IF Len(s.frames) = 1
    THEN [s EXCEPT !.frames = <<>>, !.status = "idle",
                   !.result = [kind |-> "Ok", output |-> s.output]]
    ELSE Restored(s, s.frames[Len(s.frames) - 1], s.context.return_value)

\* An instruction that computes val and assigns it: a panic while computing
\* ends the process before the assignment.
Store(s, var, val) ==
    IF IsPanic(val) THEN Abort(s) ELSE Continue(assign(s, var, val), TRUE, NoJump, <<>>)

\* Instruction::Assign
ExecAssign(s, instr) == Store(s, instr.target, resolve(s, instr.value))

\* vec![Value::Integer(0); size as usize]: a negative size is a huge usize
\* and the allocation panics with a capacity overflow.
NewArray(size) == IF size < 0 THEN Panic ELSE Array([k \in 1..size |-> Integer(0)])

\* Instruction::ArrayCreate
ExecArrayCreate(s, instr) ==
    Store(s, instr.var, NewArray(to_int(resolve(s, instr.size))))

\* A read that counts a negative index from the end of the array.
ElementFromEnd(array, index) ==
    IF array.t = "arr" /\ index >= 0 /\ index < Len(array.a)
    THEN array.a[index + 1]
    ELSE IF array.t = "arr" /\ index < 0 /\ -index <= Len(array.a)
    THEN array.a[Len(array.a) + index + 1]
    ELSE Integer(0)

\* arr.get(index).cloned().unwrap_or_default() on an Array, else Integer(0).
ElementAt(array, index) ==
    IF array.t = "arr" /\ index >= 0 /\ index < Len(array.a)
    THEN array.a[index + 1] ELSE Integer(0)

\* Instruction::ArrayRead
ExecArrayRead(s, instr) ==
    Store(s, instr.result,
          ElementAt(resolve(s, instr.arr), to_int(resolve(s, instr.idx))))

HasElement(map, var_idx, index) ==
    /\ var_idx \in DOMAIN map
    /\ map[var_idx].t = "arr"
    /\ index >= 0
    /\ index < Len(map[var_idx].a)

\* A write made to a copy of the array: the slot keeps its old content.
WriteToCopy(s, prefix, var_idx, index, val) == s

\* The write through get_mut on the slot of the variable named by arr.
WriteAt(s, prefix, var_idx, index, val) ==
    CASE prefix = "v" /\ HasElement(s.context.local_vars, var_idx, index) ->
            [s EXCEPT !.context.local_vars[var_idx].a[index + 1] = val]
      [] prefix = "g" /\ HasElement(s.global_vars, var_idx, index) ->
            [s EXCEPT !.global_vars[var_idx].a[index + 1] = val]
      [] OTHER -> s

\* Instruction::ArrayWrite
ExecArrayWrite(s, instr) ==
    Continue(WriteAt(s, instr.arr[1], VarIndex(instr.arr),
                     to_int(resolve(s, instr.idx)), resolve(s, instr.value)),
             TRUE, NoJump, <<>>)

\* An output that is put at the front of the log.
EmitFront(s, val) ==
    Continue([s EXCEPT !.output = <<Display(val)>> \o @], TRUE, NoJump, <<val>>)

Emit(s, val) ==
    Continue([s EXCEPT !.output = Append(@, Display(val))], TRUE, NoJump, <<val>>)

\* Instruction::Output (and run_line's own Output arm, which returns the value).
ExecOutput(s, instr) == Emit(s, resolve(s, instr.value))

\* Instruction::RustFFI
ExecRustFFI(s, instr, seed) ==
    Store(s, instr.result,
          call_builtin(Display(resolve(s, instr.func)), ResolveAll(s, instr.args),
                       seed, s.checks))

ArithOps == {"Add", "Sub", "Mul", "Div", "Mod"}

Arith(op, a, b, checks) ==
    CASE op = "Add" -> add(a, b, checks)
      [] op = "Sub" -> sub(a, b, checks)
      [] op = "Mul" -> mul(a, b, checks)
      [] op = "Div" -> div(a, b)
      [] op = "Mod" -> modulo(a, b)

\* Instruction::Add, Sub, Mul, Div, Mod
\* val is the result of the operation on the resolved operands.
ExecArith(s, instr, val) == Store(s, instr.result, val)

CompareOps == {"Lt", "Gt", "Eq"}

Compare(op, a, b) ==
    CASE op = "Lt" -> lt(a, b)
      [] op = "Gt" -> gt(a, b)
      [] op = "Eq" -> eq_val(a, b)

\* Instruction::Lt, Gt, Eq
ExecCompare(s, instr) ==
    Store(s, instr.result, Compare(instr.op, resolve(s, instr.a), resolve(s, instr.b)))

LogicOps == {"Not", "And", "Or"}

\* Instruction::Not
ExecNot(s, instr) == Store(s, instr.result, Bool01(~is_truthy(resolve(s, instr.a))))

Logic(op, a, b) == Bool01(IF op = "And" THEN a /\ b ELSE a \/ b)

\* Instruction::And, Or
ExecLogic(s, instr) ==
    IF instr.op = "Not" THEN ExecNot(s, instr)
    ELSE Store(s, instr.result,
               Logic(instr.op, is_truthy(resolve(s, instr.a)),
                     is_truthy(resolve(s, instr.b))))

JumpOps == {"CondJump", "Jump"}

\* Instruction::CondJump, Jump
ExecJump(s, instr) ==
    IF instr.op = "Jump" \/ is_truthy(resolve(s, instr.cond))
    THEN Continue(s, TRUE, JumpTo(instr.label), <<>>)
    ELSE Continue(s, TRUE, NoJump, <<>>)

\* Instruction::Return
\* A Return that stores the value and lets the block go on.
ExecReturnGoesOn(s, instr) ==
    Continue([s EXCEPT !.context.return_value = resolve(s, instr.value)],
             TRUE, NoJump, <<>>)

ExecReturn(s, instr) ==
    Continue([s EXCEPT !.context.return_value = resolve(s, instr.value),
                       !.context.returned = TRUE],
             FALSE, NoJump, <<>>)

\* Empty, Comment, FuncDef, FuncEnd and Label do nothing when executed (an
\* import does nothing either).
NoOps == {"Empty", "Comment", "FuncDef", "FuncEnd", "Label", "Import"}

ExecNoOp(s, instr) == Continue(s, TRUE, NoJump, <<>>)

\* Whether the loop of execute_block in the top frame has ended: the cursor
\* is past the block, the frame has returned, or the loop was broken.
BlockEnded(s) ==
    /\ TopFrame(s).kind = "block"
    /\ \/ TopFrame(s).i > Len(TopFrame(s).instructions)
       \/ s.context.returned
       \/ TopFrame(s).brk

CurrentInstr(s) == TopFrame(s).instructions[TopFrame(s).i]

\* HashMap::insert for each parsed function in turn: the last definition of
\* an id wins.
StoreFunctions(functions) ==
    LET last(id) == CHOOSE k \in 1..Len(functions) :
                       /\ functions[k].id = id
                       /\ \A j \in 1..Len(functions) : functions[j].id = id => j <= k
    IN  [id \in {functions[k].id : k \in 1..Len(functions)} |-> functions[last(id)]]

\* An argument tried as a float before it is tried as an integer.
ArgFloatFirst(arg, int, float) ==
    IF float.ok THEN float.v ELSE IF int.ok THEN Integer(int.v) ELSE String(arg)

\* A command-line argument: an Integer if it parses as one, else a Float,
\* else a String.
ArgParsed(arg, int, float) ==
    IF int.ok THEN Integer(int.v) ELSE IF float.ok THEN float.v ELSE String(arg)

ArgValue(arg) == ArgParsed(arg, ParseI64(arg), ParseF64(arg))

ArgGlobals(args) ==
    [k \in 100..(100 + Len(args)) |->
        IF k = 100 THEN Integer(Len(args)) ELSE ArgValue(args[k - 100])]

\* A run that enters the main block without the function table.
RunUnregistered(s, parsed) ==
    IF ~parsed.ok THEN Fail(s, ParseFailure(parsed.err))
    ELSE EnterBlock([s EXCEPT !.result = NoResult], parsed.instructions)

\* The rest of run after the parse: the parse error, or the function table
\* and the entry into the main block.
RunParsed(s, parsed) ==
    IF ~parsed.ok THEN Fail(s, ParseFailure(parsed.err))
    ELSE EnterBlock([s EXCEPT !.functions = StoreFunctions(parsed.functions),
                              !.result = NoResult],
                    parsed.instructions)

\* Interpreter::run up to the first instruction: reset, the arguments, the
\* parse, the function table.
run(s, code, args) ==
    RunParsed([reset(s) EXCEPT !.global_vars = ArgGlobals(args)], Parser_parse(code))

LineParsed(s, tokens, parsed) ==
    IF Len(tokens) = 0
    THEN [s EXCEPT !.status = "idle", !.result = [kind |-> "OkLine", value |-> <<>>]]
    ELSE IF ~parsed.ok THEN Fail(s, ParseFailure(parsed.err))
    ELSE [s EXCEPT !.frames = <<LineFrame(parsed.instr)>>, !.status = "running",
                   !.result = NoResult]

\* Interpreter::run_line up to the instruction's execution.
run_line(s, line) ==
    LineParsed(s, tokenize_line(line), parse_line(tokenize_line(line), 1))

(***************************************************************************)
(* Debugger (debugger/mod.rs).  A debugger state is a record d of the      *)
(* struct's fields together with the state of the call in progress: api is *)
(* "idle", "step" or "resume"; loops is the stack of the active            *)
(* Instruction::Call arms of run_instruction, each with the function body, *)
(* its label table func_labels, its cursor fi, the variable the result     *)
(* goes to and, once the loop was left through a Return, the value         *)
(* returned; event is what the last call returned.  Positions (ip, fi, the *)
(* values of the label tables) count from 0 as in the code.                *)
(***************************************************************************)
StackFrame(func_id, args) ==
    [func_id |-> func_id, line |-> 0, locals |-> EmptyMap, args |-> args]

DebugEvent(kind, n) == [kind |-> kind, n |-> n]

\* Debugger::new
NewDebugger(checks) ==
    [breakpoints |-> {}, state |-> "Paused", current_line |-> 0,
     instructions |-> <<>>, functions |-> EmptyMap, global_vars |-> EmptyMap,
     call_stack |-> <<>>, current_frame |-> StackFrame(-1, <<>>), output |-> <<>>,
     labels |-> EmptyMap, ip |-> 0, source_lines |-> <<>>,
     loops |-> <<>>, api |-> "idle", event |-> DebugEvent("None", 0),
     checks |-> checks]

\* The instructions paired with their numbers: (i + 1, instr).
Numbered(instructions) ==
    [k \in 1..Len(instructions) |-> [line |-> k, instr |-> instructions[k]]]

\* A label table with positions counted from 0.
Positions(instructions) ==
    [id \in DOMAIN LabelTable(instructions) |-> LabelTable(instructions)[id] - 1]

\* The rest of load after the parse.
Loaded(d, code, parsed) ==
    IF ~parsed.ok
    THEN [d EXCEPT !.source_lines = Lines(code),
                   !.event = DebugEvent("LoadErr", parsed.err.line)]
    ELSE [d EXCEPT !.source_lines = Lines(code),
                   !.instructions = Numbered(parsed.instructions),
                   !.labels = Positions(parsed.instructions),
                   !.functions = StoreFunctions(parsed.functions),
                   !.ip = 0,
                   !.state = "Paused",
                   !.global_vars = EmptyMap,
                   !.call_stack = <<>>,
                   !.current_frame = StackFrame(-1, <<>>),
                   !.output = <<>>,
                   !.event = DebugEvent("LoadOk", 0)]

\* Debugger::load
Debugger_load(d, code) == Loaded(d, code, Parser_parse(code))

Debugger_set_breakpoint(d, line) == [d EXCEPT !.breakpoints = @ \cup {line}]

Debugger_remove_breakpoint(d, line) == [d EXCEPT !.breakpoints = @ \ {line}]

Debugger_clear_breakpoints(d) == [d EXCEPT !.breakpoints = {}]

DebuggerLookup(d, prefix, idx) ==
    CASE prefix = "v" -> GetOrDefault(d.current_frame.locals, idx)
      [] prefix = "g" -> GetOrDefault(d.global_vars, idx)
      [] prefix = "a" -> IF idx >= 0 /\ idx < Len(d.current_frame.args)
                         THEN d.current_frame.args[idx + 1]
                         ELSE DefaultValue
      [] OTHER -> DefaultValue

DebuggerResolved(d, val, pv) ==
    CASE pv.k = "Variable" -> DebuggerLookup(d, val[1], VarIndex(val))
      [] pv.k = "Integer" -> Integer(pv.n)
      [] pv.k = "Float" -> pv.f
      [] OTHER -> String(pv.s)

\* Debugger::resolve
Debugger_resolve(d, val) == DebuggerResolved(d, val, parse_value(val))

DebuggerAssignAt(d, prefix, idx, value) ==
    CASE prefix = "v" -> [d EXCEPT !.current_frame.locals = Insert(@, idx, value)]
      [] prefix = "g" -> [d EXCEPT !.global_vars = Insert(@, idx, value)]
      [] OTHER -> d

\* Debugger::assign
Debugger_assign(d, var, value) == DebuggerAssignAt(d, var[1], VarIndex(var), value)

DebuggerResolveAll(d, args) == [k \in 1..Len(args) |-> Debugger_resolve(d, args[k])]

\* A panic ends the process.
DebuggerAbort(d) == [d EXCEPT !.state = "panic", !.api = "idle", !.loops = <<>>]

\* An arm of run_instruction that computes val and assigns it.
DebuggerStore(d, var, val) ==
    IF IsPanic(val) THEN DebuggerAbort(d) ELSE Debugger_assign(d, var, val)

\* The arms of the debugger's call_builtin, x being the first argument as a
\* float (sqrt of a perfect square only).
DebuggerBuiltin(func_name, args, x) ==
    CASE func_name = <<"s", "q", "r", "t">> ->
           IF x.nan \/ x.num < 0 THEN NaN
           ELSE Float(CHOOSE r \in 0..x.num : r * r = x.num,
                      CHOOSE r \in 1..x.den : r * r = x.den)
      [] func_name = <<"a", "b", "s">> -> AbsOf(x)
      [] func_name = <<"l", "e", "n">> ->
           IF Len(args) = 0 THEN Integer(0)
           ELSE (CASE args[1].t = "str" -> Integer(Len(args[1].s))
                   [] args[1].t = "arr" -> Integer(Len(args[1].a))
                   [] OTHER -> Integer(0))
      [] OTHER -> Integer(0)

\* Debugger::call_builtin
Debugger_call_builtin(func, args) ==
    DebuggerBuiltin(LastSegment(func), args, FirstFloat(args))

\* The write of the ArrayWrite arm through get_mut.
DebuggerWriteAt(d, prefix, var_idx, index, val) ==
    CASE prefix = "v" /\ HasElement(d.current_frame.locals, var_idx, index) ->
            [d EXCEPT !.current_frame.locals[var_idx].a[index + 1] = val]
      [] prefix = "g" /\ HasElement(d.global_vars, var_idx, index) ->
            [d EXCEPT !.global_vars[var_idx].a[index + 1] = val]
      [] OTHER -> d

\* The arms of run_instruction other than Call (and Input): the state after
\* the instruction.
run_instruction(d, instr) ==
    CASE instr.op \in NoOps \cup JumpOps \cup {"Return"} -> d
      [] instr.op = "Assign" ->
           DebuggerStore(d, instr.target, Debugger_resolve(d, instr.value))
      [] instr.op \in ArithOps ->
           DebuggerStore(d, instr.result,
                         Arith(instr.op, Debugger_resolve(d, instr.a),
                               Debugger_resolve(d, instr.b), d.checks))
      [] instr.op \in CompareOps ->
           DebuggerStore(d, instr.result,
                         Compare(instr.op, Debugger_resolve(d, instr.a),
                                 Debugger_resolve(d, instr.b)))
      [] instr.op = "Not" ->
           DebuggerStore(d, instr.result,
                         Bool01(~is_truthy(Debugger_resolve(d, instr.a))))
      [] instr.op \in {"And", "Or"} ->
           DebuggerStore(d, instr.result,
                         Logic(instr.op, is_truthy(Debugger_resolve(d, instr.a)),
                               is_truthy(Debugger_resolve(d, instr.b))))
      [] instr.op = "ArrayCreate" ->
           DebuggerStore(d, instr.var, NewArray(to_int(Debugger_resolve(d, instr.size))))
      [] instr.op = "ArrayRead" ->
           DebuggerStore(d, instr.result,
                         ElementAt(Debugger_resolve(d, instr.arr),
                                   to_int(Debugger_resolve(d, instr.idx))))
      [] instr.op = "ArrayWrite" ->
           DebuggerWriteAt(d, instr.arr[1], VarIndex(instr.arr),
                           to_int(Debugger_resolve(d, instr.idx)),
                           Debugger_resolve(d, instr.value))
      [] instr.op = "Output" ->
           [d EXCEPT !.output = Append(@, Display(Debugger_resolve(d, instr.value)))]
      [] instr.op = "RustFFI" ->
           DebuggerStore(d, instr.result,
                         Debugger_call_builtin(Display(Debugger_resolve(d, instr.func)),
                                               DebuggerResolveAll(d, instr.args)))

\* What run_instruction returns for the instruction: Ok(Some(label)) for a
\* Jump and for a CondJump whose condition is truthy, else Ok(None).
JumpOf(d, instr) ==
    IF instr.op = "Jump" THEN JumpTo(instr.label)
    ELSE IF instr.op = "CondJump" /\ is_truthy(Debugger_resolve(d, instr.cond))
    THEN JumpTo(instr.label)
    ELSE NoJump

\* The cursor after an instruction at position i that returned jump: the
\* position the table gives for the label, or the next position.
Target(table, jump, i) ==
    IF jump.some /\ jump.label \in DOMAIN table THEN table[jump.label] ELSE i + 1

\* An error leaves every active Call arm through `?`; step and resume
\* finish with the error.
DebuggerFail(d, func_id) ==
    [d EXCEPT !.state = "Finished", !.api = "idle", !.loops = <<>>,
              !.event = DebugEvent("Error", func_id)]

CallLoop(body, result) ==
    [body |-> body, func_labels |-> Positions(body), fi |-> 0, result |-> result,
     returned |-> FALSE, return_val |-> Integer(0)]

\* The Call arm after the new frame was pushed: the lookup of the function
\* and the entry into the loop over its body.
Entered(d, instr) ==
    IF instr.func_id \notin DOMAIN d.functions THEN DebuggerFail(d, instr.func_id)
    ELSE [d EXCEPT !.loops = Append(@, CallLoop(d.functions[instr.func_id].body,
                                                 instr.result))]

\* The Call arm of run_instruction up to the first instruction of the body.
EnterCall(d, instr) ==
    Entered([d EXCEPT !.call_stack = Append(@, d.current_frame),
                      !.current_frame =
                          StackFrame(instr.func_id, DebuggerResolveAll(d, instr.args))],
            instr)

TopLoop(d) == d.loops[Len(d.loops)]

LoopEnded(d) == TopLoop(d).returned \/ TopLoop(d).fi >= Len(TopLoop(d).body)

LoopInstr(d) == TopLoop(d).body[TopLoop(d).fi + 1]

\* One pass of the loop over a function body, for an instruction other than
\* Call, whose state after run_instruction is ran.
BodyStep(d, instr, ran) ==
    IF ran.state = "panic" THEN ran
    ELSE IF instr.op = "Return"
    THEN [ran EXCEPT !.loops[Len(d.loops)].returned = TRUE,
                     !.loops[Len(d.loops)].return_val = Debugger_resolve(ran, instr.value)]
    ELSE [ran EXCEPT !.loops[Len(d.loops)].fi =
                        Target(TopLoop(d).func_labels, JumpOf(d, instr), TopLoop(d).fi)]

\* A resume that finds the breakpoint of the next instruction only after it
\* has run that instruction.
AfterTopBreaksLate(d, jump) ==
    IF d.state = "panic" THEN d
    ELSE IF d.api = "step"
    THEN [d EXCEPT !.ip = Target(d.labels, jump, d.ip),
                   !.state = IF Target(d.labels, jump, d.ip) >= Len(d.instructions)
                             THEN "Finished" ELSE "Paused",
                   !.event = IF Target(d.labels, jump, d.ip) >= Len(d.instructions)
                             THEN DebugEvent("Finished", 0) ELSE DebugEvent("Step", 0),
                   !.api = "idle"]
    ELSE IF /\ Target(d.labels, jump, d.ip) < Len(d.instructions)
            /\ d.instructions[Target(d.labels, jump, d.ip) + 1].line \in d.breakpoints
    THEN [(IF d.instructions[Target(d.labels, jump, d.ip) + 1].instr.op = "Call" THEN d
           ELSE run_instruction(d, d.instructions[Target(d.labels, jump, d.ip) + 1].instr))
          EXCEPT !.ip = Target(d.labels, jump, d.ip),
                 !.current_line = d.instructions[Target(d.labels, jump, d.ip) + 1].line,
                 !.state = "Paused",
                 !.event = DebugEvent("Breakpoint",
                                      d.instructions[Target(d.labels, jump, d.ip) + 1].line),
                 !.api = "idle"]
    ELSE [d EXCEPT !.ip = Target(d.labels, jump, d.ip)]

\* What step and resume do with Ok(jump) from the instruction at ip.
AfterTop(d, jump) ==
    IF d.state = "panic" THEN d
    ELSE IF d.api = "step"
    THEN [d EXCEPT !.ip = Target(d.labels, jump, d.ip),
                   !.state = IF Target(d.labels, jump, d.ip) >= Len(d.instructions)
                             THEN "Finished" ELSE "Paused",
                   !.event = IF Target(d.labels, jump, d.ip) >= Len(d.instructions)
                             THEN DebugEvent("Finished", 0) ELSE DebugEvent("Step", 0),
                   !.api = "idle"]
    ELSE IF /\ Target(d.labels, jump, d.ip) < Len(d.instructions)
            /\ d.instructions[Target(d.labels, jump, d.ip) + 1].line \in d.breakpoints
    THEN [d EXCEPT !.ip = Target(d.labels, jump, d.ip),
                   !.current_line = d.instructions[Target(d.labels, jump, d.ip) + 1].line,
                   !.state = "Paused",
                   !.event = DebugEvent("Breakpoint",
                                        d.instructions[Target(d.labels, jump, d.ip) + 1].line),
                   !.api = "idle"]
    ELSE [d EXCEPT !.ip = Target(d.labels, jump, d.ip)]

\* The end of the Call arm: the caller's frame is popped and the result
\* assigned; the loop that made the call moves on, or step or resume does.
CallReturned(popped) ==
    IF Len(popped.loops) = 0 THEN AfterTop(popped, NoJump)
    ELSE [popped EXCEPT !.loops[Len(popped.loops)].fi = @ + 1]

CallReturn(d) ==
    CallReturned(Debugger_assign([d EXCEPT !.current_frame = d.call_stack[Len(d.call_stack)],
                                           !.call_stack = SubSeq(@, 1, Len(@) - 1),
                                           !.loops = SubSeq(@, 1, Len(@) - 1)],
                                 TopLoop(d).result, TopLoop(d).return_val))

AtLine(d, line) == [d EXCEPT !.current_line = line, !.current_frame.line = line]

\* run_instruction on the instruction at ip, from step or resume.
RunTop(d, instr) ==
    IF instr.op = "Call" THEN EnterCall(d, instr)
    ELSE AfterTop(run_instruction(d, instr), JumpOf(d, instr))

Finish(d) ==
    [d EXCEPT !.state = "Finished", !.event = DebugEvent("Finished", 0), !.api = "idle"]

\* Debugger::step, up to the first instruction of a called function.
Debugger_step(d) ==
    IF d.ip >= Len(d.instructions) THEN Finish(d)
    ELSE RunTop(AtLine([d EXCEPT !.api = "step"], d.instructions[d.ip + 1].line),
                d.instructions[d.ip + 1].instr)

\* One pass of the loop of resume.
ResumeLoop(d) ==
    IF d.ip >= Len(d.instructions) THEN Finish(d)
    ELSE IF d.instructions[d.ip + 1].line \in d.breakpoints /\ d.state = "Running"
    THEN [AtLine(d, d.instructions[d.ip + 1].line) EXCEPT
             !.state = "Paused",
             !.event = DebugEvent("Breakpoint", d.instructions[d.ip + 1].line),
             !.api = "idle"]
    ELSE RunTop(AtLine(d, d.instructions[d.ip + 1].line), d.instructions[d.ip + 1].instr)

\* Debugger::resume, up to the end of the first pass of its loop.
Debugger_resume(d) == ResumeLoop([d EXCEPT !.state = "Running", !.api = "resume"])

(***************************************************************************)
(* Programs and inputs the interpreter is run on.                          *)
(***************************************************************************)
\* A function that calls itself without end; function 1 returns at once.
\*     # 0 0 {
\*     = v0 8
\*     . "in"
\*     $ v1 0
\*     }
\*     # 1 0 {
\*     ^ 7
\*     }
\*     = v0 5
\*     $ g0 0
\*     . g0
ProgRecurse ==
    <<"#", " ", "0", " ", "0", " ", "{", "\n", "=", " ", "v", "0", " ", "8",
      "\n", ".", " ", "\"", "i", "n", "\"", "\n", "$", " ", "v", "1", " ",
      "0", "\n", "}", "\n", "#", " ", "1", " ", "0", " ", "{", "\n", "^",
      " ", "7", "\n", "}", "\n", "=", " ", "v", "0", " ", "5", "\n", "$",
      " ", "g", "0", " ", "0", "\n", ".", " ", "g", "0">>

\* Function 0 nests as many calls as its argument says.
\*     # 0 1 {
\*     . a0
\*     < v0 a0 2
\*     ? v0 1
\*     - v1 a0 1
\*     $ v2 0 v1
\*     : 1
\*     ^ a0
\*     }
\*     = v0 7
\*     $ g0 0 g101
\*     . g0
\*     . v0
ProgDescend ==
    <<"#", " ", "0", " ", "1", " ", "{", "\n", ".", " ", "a", "0", "\n", "<",
      " ", "v", "0", " ", "a", "0", " ", "2", "\n", "?", " ", "v", "0", " ",
      "1", "\n", "-", " ", "v", "1", " ", "a", "0", " ", "1", "\n", "$", " ",
      "v", "2", " ", "0", " ", "v", "1", "\n", ":", " ", "1", "\n", "^", " ",
      "a", "0", "\n", "}", "\n", "=", " ", "v", "0", " ", "7", "\n", "$",
      " ", "g", "0", " ", "0", " ", "g", "1", "0", "1", "\n", ".", " ", "g",
      "0", "\n", ".", " ", "v", "0">>

\* Label 1 is declared in both blocks, label 2 only at top level, label 3
\* only in function 0.
\*     # 0 0 {
\*     @ 1
\*     . "skipped in f"
\*     : 1
\*     . "f"
\*     @ 2
\*     . "f after 2"
\*     : 3
\*     }
\*     @ 1
\*     . "skipped at top"
\*     : 1
\*     $ g0 0
\*     ? 1 3
\*     . "top"
\*     : 2
\*     . "end"
ProgLabels ==
    <<"#", " ", "0", " ", "0", " ", "{", "\n", "@", " ", "1", "\n", ".", " ",
      "\"", "s", "k", "i", "p", "p", "e", "d", " ", "i", "n", " ", "f", "\"",
      "\n", ":", " ", "1", "\n", ".", " ", "\"", "f", "\"", "\n", "@", " ",
      "2", "\n", ".", " ", "\"", "f", " ", "a", "f", "t", "e", "r", " ", "2",
      "\"", "\n", ":", " ", "3", "\n", "}", "\n", "@", " ", "1", "\n", ".",
      " ", "\"", "s", "k", "i", "p", "p", "e", "d", " ", "a", "t", " ", "t",
      "o", "p", "\"", "\n", ":", " ", "1", "\n", "$", " ", "g", "0", " ",
      "0", "\n", "?", " ", "1", " ", "3", "\n", ".", " ", "\"", "t", "o",
      "p", "\"", "\n", ":", " ", "2", "\n", ".", " ", "\"", "e", "n", "d",
      "\"">>

\* Function 0 calls function 1; both jump to their own label 1.
\*     # 0 0 {
\*     $ v0 1
\*     @ 1
\*     . "skipped in 0"
\*     : 1
\*     + v0 v0 1
\*     ^ v0
\*     }
\*     # 1 0 {
\*     ? 1 1
\*     : 2
\*     ^ 4
\*     : 1
\*     @ 2
\*     }
\*     $ g0 0
\*     . g0
ProgCallChain ==
    <<"#", " ", "0", " ", "0", " ", "{", "\n", "$", " ", "v", "0", " ", "1",
      "\n", "@", " ", "1", "\n", ".", " ", "\"", "s", "k", "i", "p", "p",
      "e", "d", " ", "i", "n", " ", "0", "\"", "\n", ":", " ", "1", "\n",
      "+", " ", "v", "0", " ", "v", "0", " ", "1", "\n", "^", " ", "v", "0",
      "\n", "}", "\n", "#", " ", "1", " ", "0", " ", "{", "\n", "?", " ",
      "1", " ", "1", "\n", ":", " ", "2", "\n", "^", " ", "4", "\n", ":",
      " ", "1", "\n", "@", " ", "2", "\n", "}", "\n", "$", " ", "g", "0",
      " ", "0", "\n", ".", " ", "g", "0">>

\* Reads and writes at the index given on the command line.
\*     [ v0 3
\*     { v0 0 10
\*     { v0 1 11
\*     { v0 2 12
\*     [ g0 2
\*     { v0 g101 7
\*     ] v1 v0 g101
\*     . v1
\*     . v0
\*     { g0 g101 "x"
\*     ] g1 g0 g101
\*     . g1
\*     . g0
\*     { v5 0 1
\*     ] v6 v5 0
\*     . v6
\*     # 0 1 {
\*     { a0 0 5
\*     [ v0 1
\*     { v0 0 a0
\*     ] v1 v0 0
\*     ^ v1
\*     }
\*     $ g2 0 9
\*     . g2
\*     . v0
ProgArrays ==
    <<"[", " ", "v", "0", " ", "3", "\n", "{", " ", "v", "0", " ", "0", " ",
      "1", "0", "\n", "{", " ", "v", "0", " ", "1", " ", "1", "1", "\n", "{",
      " ", "v", "0", " ", "2", " ", "1", "2", "\n", "[", " ", "g", "0", " ",
      "2", "\n", "{", " ", "v", "0", " ", "g", "1", "0", "1", " ", "7", "\n",
      "]", " ", "v", "1", " ", "v", "0", " ", "g", "1", "0", "1", "\n", ".",
      " ", "v", "1", "\n", ".", " ", "v", "0", "\n", "{", " ", "g", "0", " ",
      "g", "1", "0", "1", " ", "\"", "x", "\"", "\n", "]", " ", "g", "1",
      " ", "g", "0", " ", "g", "1", "0", "1", "\n", ".", " ", "g", "1", "\n",
      ".", " ", "g", "0", "\n", "{", " ", "v", "5", " ", "0", " ", "1", "\n",
      "]", " ", "v", "6", " ", "v", "5", " ", "0", "\n", ".", " ", "v", "6",
      "\n", "#", " ", "0", " ", "1", " ", "{", "\n", "{", " ", "a", "0", " ",
      "0", " ", "5", "\n", "[", " ", "v", "0", " ", "1", "\n", "{", " ", "v",
      "0", " ", "0", " ", "a", "0", "\n", "]", " ", "v", "1", " ", "v", "0",
      " ", "0", "\n", "^", " ", "v", "1", "\n", "}", "\n", "$", " ", "g",
      "2", " ", "0", " ", "9", "\n", ".", " ", "g", "2", "\n", ".", " ", "v",
      "0">>

\*     + g0 g101 g102
\*     . g0
ProgAddArgs ==
    <<"+", " ", "g", "0", " ", "g", "1", "0", "1", " ", "g", "1", "0", "2",
      "\n", ".", " ", "g", "0">>

\*     - g0 g101 g102
\*     . g0
ProgSubArgs ==
    <<"-", " ", "g", "0", " ", "g", "1", "0", "1", " ", "g", "1", "0", "2",
      "\n", ".", " ", "g", "0">>

\*     * g0 g101 g102
\*     . g0
ProgMulArgs ==
    <<"*", " ", "g", "0", " ", "g", "1", "0", "1", " ", "g", "1", "0", "2",
      "\n", ".", " ", "g", "0">>

\*     / g0 g101 g102
\*     . g0
ProgDivArgs ==
    <<"/", " ", "g", "0", " ", "g", "1", "0", "1", " ", "g", "1", "0", "2",
      "\n", ".", " ", "g", "0">>

\*     % g0 g101 g102
\*     . g0
ProgModArgs ==
    <<"%", " ", "g", "0", " ", "g", "1", "0", "1", " ", "g", "1", "0", "2",
      "\n", ".", " ", "g", "0">>

\*     [ g0 g101
\*     . g0
\*     ] g1 g0 0
\*     . g1
ProgArraySize ==
    <<"[", " ", "g", "0", " ", "g", "1", "0", "1", "\n", ".", " ", "g", "0",
      "\n", "]", " ", "g", "1", " ", "g", "0", " ", "0", "\n", ".", " ", "g",
      "1">>

\*     $ g0 1
\*     . g0
\*     # 1 0 {
\*     ^ 4
\*     }
ProgCallBeforeDef ==
    <<"$", " ", "g", "0", " ", "1", "\n", ".", " ", "g", "0", "\n", "#", " ",
      "1", " ", "0", " ", "{", "\n", "^", " ", "4", "\n", "}">>

\*     # 0 0 {
\*     ^ 1
\*     }
\*     $ g0 0
\*     . g0
\*     $ g1 2
\*     . g1
ProgCallUndefined ==
    <<"#", " ", "0", " ", "0", " ", "{", "\n", "^", " ", "1", "\n", "}",
      "\n", "$", " ", "g", "0", " ", "0", "\n", ".", " ", "g", "0", "\n",
      "$", " ", "g", "1", " ", "2", "\n", ".", " ", "g", "1">>

\* The inner definition is part of function 0's body and defines nothing.
\*     # 0 0 {
\*     # 1 0 {
\*     ^ 9
\*     }
\*     ^ 3
\*     }
\*     $ g0 0
\*     . g0
\*     $ g1 1
\*     . g1
ProgNestedDef ==
    <<"#", " ", "0", " ", "0", " ", "{", "\n", "#", " ", "1", " ", "0", " ",
      "{", "\n", "^", " ", "9", "\n", "}", "\n", "^", " ", "3", "\n", "}",
      "\n", "$", " ", "g", "0", " ", "0", "\n", ".", " ", "g", "0", "\n",
      "$", " ", "g", "1", " ", "1", "\n", ".", " ", "g", "1">>

\*     # 0 0 {
\*     ^ 1
\*     }
\*     # 0 0 {
\*     ^ 2
\*     }
\*     $ g0 0
\*     . g0
ProgRedefined ==
    <<"#", " ", "0", " ", "0", " ", "{", "\n", "^", " ", "1", "\n", "}",
      "\n", "#", " ", "0", " ", "0", " ", "{", "\n", "^", " ", "2", "\n",
      "}", "\n", "$", " ", "g", "0", " ", "0", "\n", ".", " ", "g", "0">>

\*     = v0 0
\*     : 0
\*     < v1 v0 3
\*     ! v2 v1
\*     ? v2 1
\*     . v0
\*     + v0 v0 1
\*     @ 0
\*     : 1
ProgLoop ==
    <<"=", " ", "v", "0", " ", "0", "\n", ":", " ", "0", "\n", "<", " ", "v",
      "1", " ", "v", "0", " ", "3", "\n", "!", " ", "v", "2", " ", "v", "1",
      "\n", "?", " ", "v", "2", " ", "1", "\n", ".", " ", "v", "0", "\n",
      "+", " ", "v", "0", " ", "v", "0", " ", "1", "\n", "@", " ", "0", "\n",
      ":", " ", "1">>

\*     > v0 2 1
\*     ~ v1 2 2.0
\*     & v2 v0 v1
\*     | v3 0 ""
\*     . v2
\*     . v3
\*     / g0 7 2
\*     . g0
\*     = g1 "a\tb"
\*     . g1
\*     R g2 "math.sqrt" 16
\*     . g2
\*     R g3 max 1 2.5
\*     . g3
\*     ; done
\*     ^ 0
\*     . "after return"
ProgLogic ==
    <<">", " ", "v", "0", " ", "2", " ", "1", "\n", "~", " ", "v", "1", " ",
      "2", " ", "2", ".", "0", "\n", "&", " ", "v", "2", " ", "v", "0", " ",
      "v", "1", "\n", "|", " ", "v", "3", " ", "0", " ", "\"", "\"", "\n",
      ".", " ", "v", "2", "\n", ".", " ", "v", "3", "\n", "/", " ", "g", "0",
      " ", "7", " ", "2", "\n", ".", " ", "g", "0", "\n", "=", " ", "g", "1",
      " ", "\"", "a", "\\", "t", "b", "\"", "\n", ".", " ", "g", "1", "\n",
      "R", " ", "g", "2", " ", "\"", "m", "a", "t", "h", ".", "s", "q", "r",
      "t", "\"", " ", "1", "6", "\n", ".", " ", "g", "2", "\n", "R", " ",
      "g", "3", " ", "m", "a", "x", " ", "1", " ", "2", ".", "5", "\n", ".",
      " ", "g", "3", "\n", ";", " ", "d", "o", "n", "e", "\n", "^", " ", "0",
      "\n", ".", " ", "\"", "a", "f", "t", "e", "r", " ", "r", "e", "t", "u",
      "r", "n", "\"">>

\*     = v0 1
\*     + v1 v0
ProgMissingOperand ==
    <<"=", " ", "v", "0", " ", "1", "\n", "+", " ", "v", "1", " ", "v", "0">>

\*     # 0 0 {
\*     = v0 1
ProgOpenBrace ==
    <<"#", " ", "0", " ", "0", " ", "{", "\n", "=", " ", "v", "0", " ", "1">>


\*     # 0 1 {
\*     + v0 v0 a0
\*     + v0 v0 1
\*     ^ v0
\*     }
\*     # 1 1 {
\*     = v0 9
\*     $ v1 0 a0
\*     ^ v1
\*     }
\*     # 2 1 {
\*     + v0 a0 g5
\*     ^ v0
\*     }
\*     = v0 5
\*     $ g0 0 2
\*     $ g1 1 2
\*     = g5 1
\*     $ g2 2 2
\*     = g5 4
\*     $ g3 2 2
\*     . g1
ProgDepths ==
    <<"#", " ", "0", " ", "1", " ", "{", "\n", "+", " ", "v", "0", " ", "v",
      "0", " ", "a", "0", "\n", "+", " ", "v", "0", " ", "v", "0", " ", "1",
      "\n", "^", " ", "v", "0", "\n", "}", "\n", "#", " ", "1", " ", "1",
      " ", "{", "\n", "=", " ", "v", "0", " ", "9", "\n", "$", " ", "v", "1",
      " ", "0", " ", "a", "0", "\n", "^", " ", "v", "1", "\n", "}", "\n",
      "#", " ", "2", " ", "1", " ", "{", "\n", "+", " ", "v", "0", " ", "a",
      "0", " ", "g", "5", "\n", "^", " ", "v", "0", "\n", "}", "\n", "=",
      " ", "v", "0", " ", "5", "\n", "$", " ", "g", "0", " ", "0", " ", "2",
      "\n", "$", " ", "g", "1", " ", "1", " ", "2", "\n", "=", " ", "g", "5",
      " ", "1", "\n", "$", " ", "g", "2", " ", "2", " ", "2", "\n", "=", " ",
      "g", "5", " ", "4", "\n", "$", " ", "g", "3", " ", "2", " ", "2", "\n",
      ".", " ", "g", "1">>

\*     # 0 0 {
\*     R v0 "random.randint" 0 1
\*     ^ v0
\*     }
\*     $ g0 0
\*     $ g1 0
\*     . g0
\*     . g1
ProgRandom ==
    <<"#", " ", "0", " ", "0", " ", "{", "\n", "R", " ", "v", "0", " ", "\"",
      "r", "a", "n", "d", "o", "m", ".", "r", "a", "n", "d", "i", "n", "t",
      "\"", " ", "0", " ", "1", "\n", "^", " ", "v", "0", "\n", "}", "\n",
      "$", " ", "g", "0", " ", "0", "\n", "$", " ", "g", "1", " ", "0", "\n",
      ".", " ", "g", "0", "\n", ".", " ", "g", "1">>

\* A loop whose conditional jump back is followed by an instruction.
\*     = v0 0
\*     : 0
\*     . v0
\*     + v0 v0 1
\*     < v1 v0 2
\*     ? v1 0
\*     . 9
ProgCountUp ==
    <<"=", " ", "v", "0", " ", "0", "\n", ":", " ", "0", "\n", ".", " ", "v",
      "0", "\n", "+", " ", "v", "0", " ", "v", "0", " ", "1", "\n", "<", " ",
      "v", "1", " ", "v", "0", " ", "2", "\n", "?", " ", "v", "1", " ", "0",
      "\n", ".", " ", "9">>

\* A conditional jump that is not taken, followed by a label.
\*     = v0 0
\*     ? v0 1
\*     : 0
\*     . 1
\*     : 1
\*     . 2
ProgFallThrough ==
    <<"=", " ", "v", "0", " ", "0", "\n", "?", " ", "v", "0", " ", "1", "\n",
      ":", " ", "0", "\n", ".", " ", "1", "\n", ":", " ", "1", "\n", ".",
      " ", "2">>

\* A program without labels.
\*     = v0 1
\*     + v1 v0 2
\*     ! v2 v1
\*     . v1
\*     . v2
ProgStraight ==
    <<"=", " ", "v", "0", " ", "1", "\n", "+", " ", "v", "1", " ", "v", "0",
      " ", "2", "\n", "!", " ", "v", "2", " ", "v", "1", "\n", ".", " ", "v",
      "1", "\n", ".", " ", "v", "2">>

NoArgs == <<>>

RunInput(code, args) == [code |-> code, args |-> args]

\* Operand pairs: at the ends of the integer range, a zero divisor, small
\* integers, a float, a string.
ArithArgs ==
    {<<IntToStr(I64Max), <<"1">>>>, <<IntToStr(I64Min), <<"1">>>>,
     <<IntToStr(I64Min), <<"-", "1">>>>, <<IntToStr(I64Max), <<"2">>>>,
     <<<<"2">>, <<"0">>>>, <<<<"-", "7">>, <<"2">>>>,
     <<<<"0", ".", "5">>, <<"2">>>>, <<<<"a", "b">>, <<"2">>>>}

ArithProgs == {ProgAddArgs, ProgSubArgs, ProgMulArgs, ProgDivArgs, ProgModArgs}

PlainProgs ==
    {ProgRecurse, ProgLabels, ProgCallBeforeDef, ProgCallUndefined, ProgNestedDef,
     ProgRedefined, ProgLoop, ProgLogic, ProgMissingOperand, ProgOpenBrace,
     ProgCallChain, ProgDepths, ProgRandom}

RunInputs ==
    {RunInput(code, NoArgs) : code \in PlainProgs}
    \cup {RunInput(ProgDescend, <<IntToStr(k)>>) : k \in 1..(MaxDepthCap + 1)}
    \cup {RunInput(ProgArrays, <<IntToStr(k)>>) : k \in -1..3}
    \cup {RunInput(ProgArraySize, <<IntToStr(k)>>) : k \in -1..2}
    \cup {RunInput(code, args) : code \in ArithProgs, args \in ArithArgs}

\*     $ g1 1
LineCallOne ==
    <<"$", " ", "g", "1", " ", "1">>

\*     $ v3 0
LineCallZero ==
    <<"$", " ", "v", "3", " ", "0">>

\*     . v0
LineShowLocal ==
    <<".", " ", "v", "0">>

\*     = v0 6
LineSetLocal ==
    <<"=", " ", "v", "0", " ", "6">>

\*     + v0
LineMissingOperand ==
    <<"+", " ", "v", "0">>

\*      <tab>
LineBlank ==
    <<" ", "\t">>

ReplLines ==
    {LineCallOne, LineCallZero, LineShowLocal, LineSetLocal, LineMissingOperand, LineBlank}

(***************************************************************************)
(* The interpreter as a state machine.  The first ten variables are the    *)
(* Interpreter's fields and the progress of the call being made; call       *)
(* records the last call made on the interpreter and the kind of state it  *)
(* was made in; runs_made and lines_run count the calls of run and of      *)
(* run_line.  A session sets the stack limit, then runs programs, then     *)
(* gives lines to run_line.  returns records the calls that have returned  *)
(* since the last run began: the function, its arguments, the value, and   *)
(* the number of frames saved when the call was made, with the locals of  *)
(* the caller and of the callee at the return, the callee's returned flag  *)
(* and the number of instructions after its cursor.  debugger is the       *)
(* Debugger of a session that debugs, and parser holds the last source     *)
(* given to Parser::parse and to Parser::validate with what they returned; *)
(* lexer holds the last line given to Lexer::tokenize_line and its tokens; *)
(* py2sui holds the Python program given to Py2Sui::transpile_to_sui, the  *)
(* Py2Sui, the line the second pass is at, and the text returned; sui2py   *)
(* holds the Sui program given to Sui2Py::transpile_to_python, the Python  *)
(* statements put out and the state of the Python run of them.             *)
(***************************************************************************)
VARIABLES global_vars, functions, context_stack, context, output,
          max_stack_depth, frames, status, result, checks,
          call, runs_made, lines_run, returns, debugger, parser, lexer,
          py2sui, sui2py

interp == <<global_vars, functions, context_stack, context, output,
            max_stack_depth, frames, status, result, checks>>

\* What holds the inputs and results of the functions that have no state.
tools == <<lexer, py2sui, sui2py>>

vars == <<interp, call, runs_made, lines_run, returns, debugger, parser, tools>>

Cur ==
    [global_vars |-> global_vars, functions |-> functions,
     context_stack |-> context_stack, context |-> context, output |-> output,
     max_stack_depth |-> max_stack_depth, frames |-> frames, status |-> status,
     result |-> result, checks |-> checks]

Set(s) ==
    /\ global_vars' = s.global_vars
    /\ functions' = s.functions
    /\ context_stack' = s.context_stack
    /\ context' = s.context
    /\ output' = s.output
    /\ max_stack_depth' = s.max_stack_depth
    /\ frames' = s.frames
    /\ status' = s.status
    /\ result' = s.result
    /\ checks' = s.checks

CallOf(api, code, args, line, before) ==
    [api |-> api, code |-> code, args |-> args, line |-> line, before |-> before]

NoCall == CallOf("new", <<>>, <<>>, <<>>, "fresh")

IsStackOverflow(r) == r.kind = "Err" /\ r.e = "StackOverflow"

\* The kind of state a call is made in: as constructed (but for the stack
\* limit), just after a StackOverflow, or otherwise used.
StateKind(s) ==
    IF IsStackOverflow(s.result) THEN "overflow"
    ELSE IF [s EXCEPT !.result = NoResult] =
            set_max_stack_depth(NewInterpreter(s.checks), s.max_stack_depth)
    THEN "fresh" ELSE "used"

\* No Debugger was constructed.
NoDebugger == [NewDebugger(FALSE) EXCEPT !.state = "none"]

NoSource == [source |-> <<>>, parsed |-> <<>>, validated |-> <<>>]

\* No line was given to the lexer.
NoLine == [line |-> <<>>, tokens |-> <<>>, done |-> FALSE]

\* No Python program, and a transpiler that was given none.
NoProgram ==
    [x |-> 0, aug |-> FALSE, cond |-> <<>>, nest |-> FALSE, elif |-> <<>>,
     else |-> FALSE]

TranspilerNotMade ==
    [output |-> <<>>, var_counter |-> 0, label_counter |-> 0, func_counter |-> 0,
     var_map |-> EmptyMap, func_map |-> EmptyMap, is_global |-> TRUE,
     func_args |-> <<>>, indent_stack |-> <<>>]

\* No Python made by Sui2Py.
NoPython ==
    [code |-> <<>>, sections |-> <<>>, looping |-> FALSE, state |-> -1, section |-> 0,
     pc |-> 0, env |-> EmptyMap, output |-> <<>>, at |-> "none"]

NoTranspile ==
    [program |-> NoProgram, source |-> <<>>, t |-> TranspilerNotMade, lines |-> <<>>,
     k |-> 0, prev_indent |-> 0, at |-> "none", sui |-> <<>>, earlier |-> <<>>]

Idle == status = "idle"

Running == status = "running"

Init ==
    /\ checks \in BOOLEAN
    /\ global_vars = NewInterpreter(checks).global_vars
    /\ functions = NewInterpreter(checks).functions
    /\ context_stack = NewInterpreter(checks).context_stack
    /\ context = NewInterpreter(checks).context
    /\ output = NewInterpreter(checks).output
    /\ max_stack_depth = NewInterpreter(checks).max_stack_depth
    /\ frames = NewInterpreter(checks).frames
    /\ status = NewInterpreter(checks).status
    /\ result = NewInterpreter(checks).result
    /\ call = NoCall
    /\ runs_made = 0
    /\ lines_run = 0
    /\ returns = {}
    /\ debugger = NoDebugger
    /\ parser = NoSource
    /\ lexer = NoLine
    /\ py2sui = NoTranspile
    /\ sui2py = NoPython

\* interpreter.set_max_stack_depth(depth)
SetMaxStackDepth ==
    /\ Idle
    /\ runs_made = 0
    /\ lines_run = 0
    /\ \E depth \in 0..MaxDepthCap :
          /\ depth # max_stack_depth
          /\ Set([set_max_stack_depth(Cur, depth) EXCEPT !.result = NoResult])
          /\ call' = CallOf("set_max_stack_depth", <<>>, <<>>, <<>>, StateKind(Cur))
    /\ UNCHANGED <<runs_made, lines_run, returns, debugger, parser, tools>>

\* interpreter.run(code, args), up to the first instruction of the program.
Run ==
    /\ Idle
    /\ runs_made < MaxRuns
    /\ lines_run = 0
    /\ \E in \in RunInputs :
          /\ in.code = ProgRecurse => max_stack_depth <= MaxDepthCap
          /\ Set(run(Cur, in.code, in.args))
          /\ call' = CallOf("run", in.code, in.args, <<>>, StateKind(Cur))
    /\ runs_made' = runs_made + 1
    /\ returns' = {}
    /\ UNCHANGED <<lines_run, debugger, parser, tools>>

\* interpreter.run_line(line), up to the execution of its instruction.
RunLine ==
    /\ Idle
    /\ lines_run < MaxLines
    /\ \E line \in ReplLines :
          /\ Set(run_line(Cur, line))
          /\ call' = CallOf("run_line", <<>>, <<>>, line, StateKind(Cur))
    /\ lines_run' = lines_run + 1
    /\ UNCHANGED <<runs_made, returns, debugger, parser, tools>>

\* The call in progress is at an instruction whose kind is one of ops.
Executing(ops) ==
    /\ Running
    /\ ~BlockEnded(Cur)
    /\ CurrentInstr(Cur).op \in ops

\* The step ends in interpreter state s; the call stays the same.
Becomes(s) ==
    /\ Set(s)
    /\ UNCHANGED <<call, runs_made, lines_run, returns, debugger, parser, tools>>

ExecuteNoOp == Executing(NoOps) /\ Becomes(ExecNoOp(Cur, CurrentInstr(Cur)))

ExecuteAssign == Executing({"Assign"}) /\ Becomes(ExecAssign(Cur, CurrentInstr(Cur)))

\* The operands are resolved, then the operation is made on them.
ExecuteArith ==
    /\ Executing(ArithOps)
    /\ \E a \in {resolve(Cur, CurrentInstr(Cur).a)},
          b \in {resolve(Cur, CurrentInstr(Cur).b)} :
          \E val \in {Arith(CurrentInstr(Cur).op, a, b, checks)} :
              Becomes(ExecArith(Cur, CurrentInstr(Cur), val))

ExecuteCompare == Executing(CompareOps) /\ Becomes(ExecCompare(Cur, CurrentInstr(Cur)))

ExecuteLogic == Executing(LogicOps) /\ Becomes(ExecLogic(Cur, CurrentInstr(Cur)))

ExecuteJump == Executing(JumpOps) /\ Becomes(ExecJump(Cur, CurrentInstr(Cur)))

ExecuteCall == Executing({"Call"}) /\ Becomes(ExecCall(Cur, CurrentInstr(Cur)))

ExecuteReturn == Executing({"Return"}) /\ Becomes(ExecReturn(Cur, CurrentInstr(Cur)))

ExecuteArrayCreate ==
    Executing({"ArrayCreate"}) /\ Becomes(ExecArrayCreate(Cur, CurrentInstr(Cur)))

ExecuteArrayRead ==
    Executing({"ArrayRead"}) /\ Becomes(ExecArrayRead(Cur, CurrentInstr(Cur)))

ExecuteArrayWrite ==
    Executing({"ArrayWrite"}) /\ Becomes(ExecArrayWrite(Cur, CurrentInstr(Cur)))

ExecuteOutput == Executing({"Output"}) /\ Becomes(ExecOutput(Cur, CurrentInstr(Cur)))

\* The readings of the system clock that randint may make.
Seeds == 0..MaxSeed

ExecuteRustFFI ==
    /\ Executing({"RustFFI"})
    /\ \E seed \in Seeds : Becomes(ExecRustFFI(Cur, CurrentInstr(Cur), seed))

\* The call that returns in state s: the Call instruction is the one at the
\* cursor of the frame below, the arguments are those of the context, and
\* the caller's context is the last one saved.
Returned(s) ==
    [func_id |-> s.frames[Len(s.frames) - 1].instructions[s.frames[Len(s.frames) - 1].i].func_id,
     args |-> s.context.args,
     return_val |-> s.context.return_value,
     depth |-> Len(s.context_stack) - 1,
     caller_vars |-> s.context_stack[Len(s.context_stack)].local_vars,
     callee_vars |-> s.context.local_vars,
     returned |-> s.context.returned,
     skipped |-> Len(TopFrame(s).instructions) - TopFrame(s).i]

\* execute_block returns Ok to Instruction::Call or to run.
BlockReturn ==
    /\ Running
    /\ BlockEnded(Cur)
    /\ Set(ReturnFromBlock(Cur))
    /\ returns' = IF Len(frames) = 1 THEN returns ELSE returns \cup {Returned(Cur)}
    /\ UNCHANGED <<call, runs_made, lines_run, debugger, parser, tools>>

Next ==
    \/ SetMaxStackDepth
    \/ Run
    \/ RunLine
    \/ ExecuteNoOp
    \/ ExecuteAssign
    \/ ExecuteArith
    \/ ExecuteCompare
    \/ ExecuteLogic
    \/ ExecuteJump
    \/ ExecuteCall
    \/ ExecuteReturn
    \/ ExecuteArrayCreate
    \/ ExecuteArrayRead
    \/ ExecuteArrayWrite
    \/ ExecuteOutput
    \/ ExecuteRustFFI
    \/ BlockReturn

Spec == Init /\ [][Next]_vars

(***************************************************************************)
(* Runs of programs whose jumps all go forward.  execute_block is a        *)
(* sequential loop: a run that is under way takes its next step, which is  *)
(* the weak fairness of RunStep.  The programs have no arrays and no       *)
(* builtin calls.                                                          *)
(***************************************************************************)
\* Every `?` and `@` of the block names a label that the block declares
\* after the jump.
ForwardBlock(instructions) ==
    \A i \in 1..Len(instructions) :
        instructions[i].op \in JumpOps =>
            /\ instructions[i].label \in DOMAIN LabelTable(instructions)
            /\ LabelTable(instructions)[instructions[i].label] > i

ForwardProgram(parsed) ==
    /\ parsed.ok
    /\ ForwardBlock(parsed.instructions)
    /\ \A k \in 1..Len(parsed.functions) : ForwardBlock(parsed.functions[k].body)

\* Programs with calls, recursion and jumps, and the remainder that fails.
CallInputs ==
    {RunInput(code, NoArgs) :
        code \in {ProgRecurse, ProgCallBeforeDef, ProgCallUndefined, ProgNestedDef,
                  ProgRedefined, ProgFallThrough, ProgStraight, ProgLoop, ProgCallChain,
                  ProgLabels}}
    \cup {RunInput(ProgDescend, <<IntToStr(k)>>) : k \in 1..(MaxDepthCap + 1)}
    \cup {RunInput(ProgModArgs, <<IntToStr(I64Min), <<"-", "1">>>>),
          RunInput(ProgModArgs, <<<<"-", "7">>, <<"2">>>>)}

ForwardInputs == {in \in CallInputs : ForwardProgram(Parser_parse(in.code))}

\* interpreter.run(code, args) on a program whose jumps go forward, up to
\* the first instruction of the program.
RunForward ==
    /\ Idle
    /\ runs_made = 0
    /\ \E in \in ForwardInputs :
          /\ in.code = ProgRecurse => max_stack_depth <= MaxDepthCap
          /\ Set(run(Cur, in.code, in.args))
          /\ call' = CallOf("run", in.code, in.args, <<>>, StateKind(Cur))
    /\ runs_made' = 1
    /\ returns' = {}
    /\ UNCHANGED <<lines_run, debugger, parser, tools>>

\* A pass of the loop of execute_block, or its return.
RunStep ==
    \/ ExecuteNoOp
    \/ ExecuteAssign
    \/ ExecuteArith
    \/ ExecuteCompare
    \/ ExecuteLogic
    \/ ExecuteJump
    \/ ExecuteCall
    \/ ExecuteReturn
    \/ ExecuteOutput
    \/ BlockReturn

NextForward ==
    \/ SetMaxStackDepth
    \/ RunForward
    \/ ExecuteNoOp
    \/ ExecuteAssign
    \/ ExecuteArith
    \/ ExecuteCompare
    \/ ExecuteLogic
    \/ ExecuteJump
    \/ ExecuteCall
    \/ ExecuteReturn
    \/ ExecuteOutput
    \/ BlockReturn

SpecForward == Init /\ [][NextForward]_vars /\ WF_vars(RunStep)

(***************************************************************************)
(* The debugger as a state machine.  A session constructs a Debugger,      *)
(* loads programs, sets and removes breakpoints, and steps or resumes      *)
(* while the debugger is paused.                                           *)
(***************************************************************************)
\* No Interpreter was constructed.
NoInterpreter ==
    /\ checks \in BOOLEAN
    /\ global_vars = EmptyMap
    /\ functions = EmptyMap
    /\ context_stack = <<>>
    /\ context = DefaultContext
    /\ output = <<>>
    /\ max_stack_depth = DefaultMaxStackDepth
    /\ frames = <<>>
    /\ status = "none"
    /\ result = NoResult
    /\ call = NoCall
    /\ runs_made = 0
    /\ lines_run = 0
    /\ returns = {}

DebugProgs ==
    {ProgLabels, ProgLoop, ProgCallBeforeDef, ProgCallUndefined, ProgNestedDef,
     ProgLogic, ProgArrays, ProgOpenBrace, ProgCallChain}

InitDebugger ==
    /\ NoInterpreter
    /\ debugger = NewDebugger(checks)
    /\ parser = NoSource
    /\ lexer = NoLine
    /\ py2sui = NoTranspile
    /\ sui2py = NoPython

DebuggerIdle == debugger.api = "idle" /\ debugger.state \notin {"none", "panic"}

InCall == debugger.api # "idle" /\ debugger.loops # <<>>

\* The debugger's call api returns or goes on in state d.
DebuggerCalled(api, code, d) ==
    /\ debugger' = d
    /\ call' = CallOf(api, code, <<>>, <<>>, debugger.state)
    /\ UNCHANGED <<interp, runs_made, lines_run, returns, parser, tools>>

DebuggerBecomes(d) ==
    /\ debugger' = d
    /\ UNCHANGED <<interp, call, runs_made, lines_run, returns, parser, tools>>

\* A program is loaded into a debugger that holds none or has finished one.
DebuggerLoad ==
    /\ DebuggerIdle
    /\ debugger.instructions = <<>> \/ debugger.state = "Finished"
    /\ \E code \in DebugProgs : DebuggerCalled("load", code, Debugger_load(debugger, code))

DebuggerSetBreakpoint ==
    /\ DebuggerIdle
    /\ \E line \in 1..MaxBreakLine :
          /\ line \notin debugger.breakpoints
          /\ DebuggerCalled("set_breakpoint", <<>>, Debugger_set_breakpoint(debugger, line))

DebuggerRemoveBreakpoint ==
    /\ DebuggerIdle
    /\ \E line \in debugger.breakpoints :
          DebuggerCalled("remove_breakpoint", <<>>, Debugger_remove_breakpoint(debugger, line))

DebuggerClearBreakpoints ==
    /\ DebuggerIdle
    /\ debugger.breakpoints # {}
    /\ DebuggerCalled("clear_breakpoints", <<>>, Debugger_clear_breakpoints(debugger))

DebuggerStep ==
    /\ DebuggerIdle
    /\ debugger.state = "Paused"
    /\ DebuggerCalled("step", <<>>, Debugger_step(debugger))

DebuggerResume ==
    /\ DebuggerIdle
    /\ debugger.state = "Paused"
    /\ DebuggerCalled("resume", <<>>, Debugger_resume(debugger))

\* The next pass of the loop of resume.
DebuggerResumeLoop ==
    /\ debugger.api = "resume"
    /\ debugger.loops = <<>>
    /\ DebuggerBecomes(ResumeLoop(debugger))

\* A pass of the loop over a function body, at an instruction other than Call.
DebuggerBody ==
    /\ InCall
    /\ ~LoopEnded(debugger)
    /\ LoopInstr(debugger).op # "Call"
    /\ DebuggerBecomes(BodyStep(debugger, LoopInstr(debugger),
                                run_instruction(debugger, LoopInstr(debugger))))

\* A pass of the loop over a function body, at a Call.
DebuggerBodyCall ==
    /\ InCall
    /\ ~LoopEnded(debugger)
    /\ LoopInstr(debugger).op = "Call"
    /\ DebuggerBecomes(EnterCall(debugger, LoopInstr(debugger)))

\* The loop over a function body has ended.
DebuggerCallReturn ==
    /\ InCall
    /\ LoopEnded(debugger)
    /\ DebuggerBecomes(CallReturn(debugger))

NextDebugger ==
    \/ DebuggerLoad
    \/ DebuggerSetBreakpoint
    \/ DebuggerRemoveBreakpoint
    \/ DebuggerClearBreakpoints
    \/ DebuggerStep
    \/ DebuggerResume
    \/ DebuggerResumeLoop
    \/ DebuggerBody
    \/ DebuggerBodyCall
    \/ DebuggerCallReturn

SpecDebugger == InitDebugger /\ [][NextDebugger]_vars

(***************************************************************************)
(* Sessions that go on calling step and resume after the debugger has      *)
(* finished.  Neither function looks at the state before it looks at ip.   *)
(***************************************************************************)
\* The most frames a finished debugger is let to hold.
MaxLeftFrames == 2

DebuggerStepFinished ==
    /\ DebuggerIdle
    /\ debugger.state = "Finished"
    /\ Len(debugger.call_stack) < MaxLeftFrames
    /\ DebuggerCalled("step", <<>>, Debugger_step(debugger))

DebuggerResumeFinished ==
    /\ DebuggerIdle
    /\ debugger.state = "Finished"
    /\ Len(debugger.call_stack) < MaxLeftFrames
    /\ DebuggerCalled("resume", <<>>, Debugger_resume(debugger))

NextFinished ==
    \/ DebuggerLoad
    \/ DebuggerStep
    \/ DebuggerResume
    \/ DebuggerResumeLoop
    \/ DebuggerBody
    \/ DebuggerBodyCall
    \/ DebuggerCallReturn
    \/ DebuggerStepFinished
    \/ DebuggerResumeFinished

SpecFinished == InitDebugger /\ [][NextFinished]_vars

(***************************************************************************)
(* Sessions of either kind: one that runs programs on an Interpreter or    *)
(* one that debugs them with a Debugger.                                   *)
(***************************************************************************)
InitMachines == Init \/ InitDebugger

NextMachines == Next \/ NextDebugger

SpecMachines == InitMachines /\ [][NextMachines]_vars

(***************************************************************************)
(* The lexer on one line: every text of at most MaxLineLen characters over *)
(* a letter, `;`, a space, a double quote and a backslash.                 *)
(***************************************************************************)
LineChars == {"a", ";", " ", "\"", "\\"}

LexLines == UNION {[1..n -> LineChars] : n \in 0..MaxLineLen}

InitLexer ==
    /\ NoInterpreter
    /\ debugger = NoDebugger
    /\ parser = NoSource
    /\ lexer = NoLine
    /\ py2sui = NoTranspile
    /\ sui2py = NoPython

\* Lexer::tokenize_line(line)
LexerTokenize ==
    /\ ~lexer.done
    /\ \E line \in LexLines :
          lexer' = [line |-> line, tokens |-> tokenize_line(line), done |-> TRUE]
    /\ UNCHANGED <<interp, call, runs_made, lines_run, returns, debugger, parser,
                   py2sui, sui2py>>

NextLexer == LexerTokenize

SpecLexer == InitLexer /\ [][NextLexer]_vars

(***************************************************************************)
(* A session that runs a program in the interpreter, with no arguments,    *)
(* then loads the same program into a debugger and drives it with step    *)
(* and resume, no breakpoint being set.                                    *)
(***************************************************************************)
CompareProgs == (DebugProgs \ {ProgOpenBrace}) \cup {ProgDepths, ProgRedefined}

InitCompare ==
    /\ checks \in BOOLEAN
    /\ global_vars = NewInterpreter(checks).global_vars
    /\ functions = NewInterpreter(checks).functions
    /\ context_stack = NewInterpreter(checks).context_stack
    /\ context = NewInterpreter(checks).context
    /\ output = NewInterpreter(checks).output
    /\ max_stack_depth = NewInterpreter(checks).max_stack_depth
    /\ frames = NewInterpreter(checks).frames
    /\ status = NewInterpreter(checks).status
    /\ result = NewInterpreter(checks).result
    /\ call = NoCall
    /\ runs_made = 0
    /\ lines_run = 0
    /\ returns = {}
    /\ debugger = NewDebugger(checks)
    /\ parser = NoSource
    /\ lexer = NoLine
    /\ py2sui = NoTranspile
    /\ sui2py = NoPython

\* interpreter.run(code, &[]) on one of the programs.
RunOnce ==
    /\ Idle
    /\ runs_made = 0
    /\ \E code \in CompareProgs :
          /\ Set(run(Cur, code, NoArgs))
          /\ call' = CallOf("run", code, NoArgs, <<>>, StateKind(Cur))
    /\ runs_made' = 1
    /\ returns' = {}
    /\ UNCHANGED <<lines_run, debugger, parser, tools>>

\* debugger.load(code) of the program the interpreter has run.
LoadSame ==
    /\ Idle
    /\ runs_made = 1
    /\ call.api = "run"
    /\ DebuggerIdle
    /\ DebuggerCalled("load", call.code, Debugger_load(debugger, call.code))

\* debugger.step() and debugger.resume() once the program is loaded.
StepLoaded == debugger.source_lines # <<>> /\ DebuggerStep

ResumeLoaded == debugger.source_lines # <<>> /\ DebuggerResume

NextCompare ==
    \/ RunOnce
    \/ ExecuteNoOp
    \/ ExecuteAssign
    \/ ExecuteArith
    \/ ExecuteCompare
    \/ ExecuteLogic
    \/ ExecuteJump
    \/ ExecuteCall
    \/ ExecuteReturn
    \/ ExecuteArrayCreate
    \/ ExecuteArrayRead
    \/ ExecuteArrayWrite
    \/ ExecuteOutput
    \/ ExecuteRustFFI
    \/ BlockReturn
    \/ LoadSame
    \/ StepLoaded
    \/ ResumeLoaded
    \/ DebuggerResumeLoop
    \/ DebuggerBody
    \/ DebuggerBodyCall
    \/ DebuggerCallReturn

SpecCompare == InitCompare /\ [][NextCompare]_vars

(***************************************************************************)
(* The parser's two entry points.  A session gives one source of up to     *)
(* MaxSourceLines lines to Parser::parse and to Parser::validate, in       *)
(* either order.                                                           *)
(***************************************************************************)
\*     = v0 1
SrcAssign ==
    <<"=", " ", "v", "0", " ", "1">>

\*     + v0
SrcMissing ==
    <<"+", " ", "v", "0">>

\*     # 0 0 {
SrcFuncDef ==
    <<"#", " ", "0", " ", "0", " ", "{">>

\*     }
SrcFuncEnd ==
    <<"}">>

\*     x y
SrcUnknown ==
    <<"x", " ", "y">>

\*     @ z
SrcBadLabel ==
    <<"@", " ", "z">>

\*     # 1
SrcBadFuncDef ==
    <<"#", " ", "1">>

\*      
SrcBlank ==
    <<" ">>

SourceLines ==
    {SrcAssign, SrcMissing, SrcFuncDef, SrcFuncEnd, SrcUnknown, SrcBadLabel,
     SrcBadFuncDef, SrcBlank}

RECURSIVE JoinLines(_)
JoinLines(ls) ==
    IF Len(ls) = 1 THEN ls[1] ELSE ls[1] \o <<"\n">> \o JoinLines(Tail(ls))

Sources ==
    {JoinLines(ls) : ls \in UNION {[1..n -> SourceLines] : n \in 1..MaxSourceLines}}

InitParser ==
    /\ NoInterpreter
    /\ debugger = NoDebugger
    /\ parser = NoSource
    /\ lexer = NoLine
    /\ py2sui = NoTranspile
    /\ sui2py = NoPython

\* The source is the one the session is about.
Chosen(source) == parser = NoSource \/ parser.source = source

\* Parser::parse(source)
ParserParse ==
    /\ parser.parsed = <<>>
    /\ \E source \in Sources :
          /\ Chosen(source)
          /\ parser' = [source |-> source, parsed |-> <<Parser_parse(source)>>,
                        validated |-> parser.validated]
    /\ UNCHANGED <<interp, call, runs_made, lines_run, returns, debugger, tools>>

\* Parser::validate(source)
ParserValidate ==
    /\ parser.validated = <<>>
    /\ \E source \in Sources :
          /\ Chosen(source)
          /\ parser' = [source |-> source, parsed |-> parser.parsed,
                        validated |-> <<validate(source)>>]
    /\ UNCHANGED <<interp, call, runs_made, lines_run, returns, debugger, tools>>

NextParser == ParserParse \/ ParserValidate

SpecParser == InitParser /\ [][NextParser]_vars

(***************************************************************************)
(* The Python to Sui transpiler (transpiler/py2sui.rs), for assignments,    *)
(* augmented assignments, print, if, elif and else over expressions that   *)
(* are integer literals, True, False, None, names, `not`, the arithmetic   *)
(* operators, unary minus and parentheses.  The arms of parse_expr and     *)
(* parse_line for other forms (floats, strings, comparisons, and, or,      *)
(* builtin calls, subscripts, lists, while, for) are left out, and the     *)
(* Python texts given to the model have none of them.                      *)
(***************************************************************************)
Least(S) == CHOOSE k \in S : \A j \in S : k <= j

Greatest(S) == CHOOSE k \in S : \A j \in S : j <= k

\* str::trim
Trim(s) ==
    IF \A k \in 1..Len(s) : IsWhitespace(s[k]) THEN <<>>
    ELSE SubSeq(s, Least({k \in 1..Len(s) : ~IsWhitespace(s[k])}),
                Greatest({k \in 1..Len(s) : ~IsWhitespace(s[k])}))

StartsWith(s, p) == Len(s) >= Len(p) /\ SubSeq(s, 1, Len(p)) = p

EndsWith(s, p) == Len(s) >= Len(p) /\ SubSeq(s, Len(s) - Len(p) + 1, Len(s)) = p

\* str::find: the first position (from 1) at which p occurs in s, or 0.
Find(s, p) ==
    IF \E k \in 1..(Len(s) - Len(p) + 1) : SubSeq(s, k, k + Len(p) - 1) = p
    THEN Least({k \in 1..(Len(s) - Len(p) + 1) : SubSeq(s, k, k + Len(p) - 1) = p})
    ELSE 0

\* Py2Sui::new()
NewPy2Sui ==
    [output |-> <<>>, var_counter |-> 0, label_counter |-> 0, func_counter |-> 0,
     var_map |-> EmptyMap, func_map |-> EmptyMap, is_global |-> TRUE, func_args |-> <<>>,
     indent_stack |-> <<>>]

Py2Sui_emit(t, line) == [t EXCEPT !.output = Append(@, line)]

\* The name new_var returns in state t.
NewVarName(t) == <<"v">> \o NatToStr(t.var_counter)

\* The state and the variable that parse_expr and get_var return.
Expr(t, var) == [t |-> t, var |-> var]

\* get_var: the argument's position, the mapped variable, or a new global
\* (numbered by the count of globals in the map) or a new local.
get_var(t, name) ==
    IF \E k \in 1..Len(t.func_args) : t.func_args[k] = name
    THEN Expr(t, <<"a">> \o NatToStr(Least({k \in 1..Len(t.func_args) :
                                             t.func_args[k] = name}) - 1))
    ELSE IF name \in DOMAIN t.var_map THEN Expr(t, t.var_map[name])
    ELSE IF t.is_global
    THEN Expr([t EXCEPT !.var_map =
                  Insert(@, name,
                         <<"g">> \o NatToStr(Cardinality({n \in DOMAIN t.var_map :
                                                           t.var_map[n][1] = "g"})))],
              <<"g">> \o NatToStr(Cardinality({n \in DOMAIN t.var_map :
                                                t.var_map[n][1] = "g"})))
    ELSE Expr([t EXCEPT !.var_counter = @ + 1,
                        !.var_map = Insert(@, name, NewVarName(t))],
              NewVarName(t))

\* A new variable assigned the literal text.
Literal(t, text) ==
    Expr([t EXCEPT !.var_counter = @ + 1,
                   !.output = Append(@, <<"=", " ">> \o NewVarName(t) \o <<" ">> \o text)],
         NewVarName(t))

\* `not e`: a new variable assigned the negation of the operand's.
NotOf(e) ==
    Expr([e.t EXCEPT !.var_counter = @ + 1,
                     !.output = Append(@, <<"!", " ">> \o NewVarName(e.t)
                                             \o <<" ">> \o e.var)],
         NewVarName(e.t))

\* The depth that find_operator_rtl has counted when it tests position i,
\* coming from the right: the closing brackets less the opening ones.
DepthRtl(chars, i) ==
    Cardinality({k \in i..Len(chars) : chars[k] \in {")", "]"}})
    - Cardinality({k \in i..Len(chars) : chars[k] \in {"(", "["}})

\* find_operator_rtl: the last position (from 1) of the one-character
\* operator outside brackets that is not part of a two-character operator,
\* or 0.
OperatorsRtl(chars, op) ==
    {i \in 1..Len(chars) :
        /\ chars[i] = op
        /\ DepthRtl(chars, i) = 0
        /\ (i = 1 \/ chars[i - 1] \notin {"=", "<", ">", "!"})
        /\ (i = Len(chars) \/ chars[i + 1] # "=")}

find_operator_rtl(chars, op) ==
    IF OperatorsRtl(chars, op) = {} THEN 0 ELSE Greatest(OperatorsRtl(chars, op))

\* The operators of a level in the order parse_expr tries them, and the
\* first of them that find_operator_rtl finds at a position from `least`
\* on, or 0.
AdditiveOps == <<"+", "-">>

MultiplicativeOps == <<"*", "/", "%">>

FirstFound(expr, ops, least) ==
    IF \E k \in 1..Len(ops) : find_operator_rtl(expr, ops[k]) >= least
    THEN Least({k \in 1..Len(ops) : find_operator_rtl(expr, ops[k]) >= least})
    ELSE 0

\* A new variable assigned `left op right`, left being flattened first.
BinaryResult(r, sui_op, left_var) ==
    Expr([r.t EXCEPT !.var_counter = @ + 1,
                     !.output = Append(@, <<sui_op, " ">> \o NewVarName(r.t) \o <<" ">>
                                             \o left_var \o <<" ">> \o r.var)],
         NewVarName(r.t))

\* `-e`: a new variable assigned 0 - e.
NegOf(e) ==
    Expr([e.t EXCEPT !.var_counter = @ + 1,
                     !.output = Append(@, <<"-", " ">> \o NewVarName(e.t)
                                             \o <<" ", "0", " ">> \o e.var)],
         NewVarName(e.t))

\* split_args for arguments without brackets and string literals: the
\* trimmed texts between the commas, an empty last one being dropped.
RECURSIVE split_args(_)
split_args(args_str) ==
    IF Trim(args_str) = <<>> THEN <<>>
    ELSE IF Find(args_str, <<",">>) = 0 THEN <<Trim(args_str)>>
    ELSE <<Trim(SubSeq(args_str, 1, Find(args_str, <<",">>) - 1))>>
         \o split_args(SubSeq(args_str, Find(args_str, <<",">>) + 1, Len(args_str)))

\* The texts joined with single spaces.
RECURSIVE JoinSpaced(_)
JoinSpaced(texts) ==
    IF texts = <<>> THEN <<>>
    ELSE IF Len(texts) = 1 THEN texts[1]
    ELSE texts[1] \o <<" ">> \o JoinSpaced(Tail(texts))

\* A new variable assigned the result of the call of function func_id on
\* the variables of the arguments.
CallResult(t, func_id, arg_vars) ==
    Expr([t EXCEPT !.var_counter = @ + 1,
                   !.output = Append(@, <<"$", " ">> \o NewVarName(t) \o <<" ">>
                                           \o IntToStr(func_id) \o <<" ">>
                                           \o JoinSpaced(arg_vars))],
         NewVarName(t))

\* parse_expr on the trimmed text.
RECURSIVE ParseTrimmed(_, _)
RECURSIVE Binary(_, _, _, _)
RECURSIVE CallArgs(_, _, _, _, _)
ParseTrimmed(t, expr) ==
    IF ParseI64(expr).ok THEN Literal(t, IntToStr(ParseI64(expr).v))
    ELSE IF expr = <<"T", "r", "u", "e">> THEN Literal(t, <<"1">>)
    ELSE IF expr \in {<<"F", "a", "l", "s", "e">>, <<"N", "o", "n", "e">>}
    THEN Literal(t, <<"0">>)
    ELSE IF StartsWith(expr, <<"n", "o", "t", " ">>)
    THEN NotOf(ParseTrimmed(t, Trim(SubSeq(expr, 5, Len(expr)))))
    ELSE IF FirstFound(expr, AdditiveOps, 2) > 0
    THEN Binary(t, expr, AdditiveOps[FirstFound(expr, AdditiveOps, 2)],
                find_operator_rtl(expr, AdditiveOps[FirstFound(expr, AdditiveOps, 2)]))
    ELSE IF FirstFound(expr, MultiplicativeOps, 1) > 0
    THEN Binary(t, expr, MultiplicativeOps[FirstFound(expr, MultiplicativeOps, 1)],
                find_operator_rtl(expr,
                                  MultiplicativeOps[FirstFound(expr, MultiplicativeOps, 1)]))
    ELSE IF expr # <<>> /\ expr[1] = "-" /\ Len(expr) > 1
    THEN NegOf(ParseTrimmed(t, Trim(SubSeq(expr, 2, Len(expr)))))
    ELSE IF expr # <<>> /\ expr[1] = "(" /\ expr[Len(expr)] = ")"
    THEN ParseTrimmed(t, Trim(SubSeq(expr, 2, Len(expr) - 1)))
    ELSE IF /\ Find(expr, <<"(">>) > 0
            /\ expr[Len(expr)] = ")"
            /\ SubSeq(expr, 1, Find(expr, <<"(">>) - 1) \in DOMAIN t.func_map
    THEN CallArgs(t, t.func_map[SubSeq(expr, 1, Find(expr, <<"(">>) - 1)],
                  split_args(SubSeq(expr, Find(expr, <<"(">>) + 1, Len(expr) - 1)),
                  1, <<>>)
    ELSE get_var(t, expr)

\* The arguments of a call are parsed from the left, then the call is made.
CallArg(e, func_id, args, k, arg_vars) ==
    CallArgs(e.t, func_id, args, k + 1, Append(arg_vars, e.var))

CallArgs(t, func_id, args, k, arg_vars) ==
    IF k > Len(args) THEN CallResult(t, func_id, arg_vars)
    ELSE CallArg(ParseTrimmed(t, Trim(args[k])), func_id, args, k, arg_vars)

\* The text is split at the operator at position idx.
BinaryRight(left, expr, sui_op, idx) ==
    BinaryResult(ParseTrimmed(left.t, Trim(SubSeq(expr, idx + 1, Len(expr)))),
                 sui_op, left.var)

Binary(t, expr, sui_op, idx) ==
    BinaryRight(ParseTrimmed(t, Trim(SubSeq(expr, 1, idx - 1))), expr, sui_op, idx)

Py2Sui_parse_expr(t, expr) == ParseTrimmed(t, Trim(expr))

\* find_assignment from position i: the first `=` outside brackets and
\* string literals that is not part of ==, !=, <= or >=, or 0.  quote is the
\* quote of the string literal the scan is in, or the empty string.
RECURSIVE FindAssignmentFrom(_, _, _, _)
FindAssignmentFrom(chars, i, depth, quote) ==
    IF i > Len(chars) THEN 0
    ELSE IF quote = "" /\ chars[i] \in {"\"", "'"}
    THEN FindAssignmentFrom(chars, i + 1, depth, chars[i])
    ELSE IF quote # "" /\ chars[i] = quote THEN FindAssignmentFrom(chars, i + 1, depth, "")
    ELSE IF quote # "" THEN FindAssignmentFrom(chars, i + 1, depth, quote)
    ELSE IF chars[i] \in {"(", "["} THEN FindAssignmentFrom(chars, i + 1, depth + 1, quote)
    ELSE IF chars[i] \in {")", "]"} THEN FindAssignmentFrom(chars, i + 1, depth - 1, quote)
    ELSE IF /\ chars[i] = "="
            /\ depth = 0
            /\ (i = 1 \/ chars[i - 1] \notin {"=", "!", "<", ">"})
            /\ (i = Len(chars) \/ chars[i + 1] # "=")
    THEN i
    ELSE FindAssignmentFrom(chars, i + 1, depth, quote)

find_assignment(s) == FindAssignmentFrom(s, 1, 0, "")

\* The augmented operators in the order parse_line tries them.
AugOps == <<"+", "-", "*", "/", "%">>

\* The first augmented operator that occurs in the line, or 0.
AugOp(trimmed) ==
    IF \E k \in 1..Len(AugOps) : Find(trimmed, <<AugOps[k], "=">>) > 0
    THEN Least({k \in 1..Len(AugOps) : Find(trimmed, <<AugOps[k], "=">>) > 0})
    ELSE 0

\* target op= value, target being resolved before the value is parsed.
AugValue(e, sui_op, target_var) ==
    Py2Sui_emit(e.t, <<sui_op, " ">> \o target_var \o <<" ">> \o target_var
                       \o <<" ">> \o e.var)

AugTarget(g, sui_op, value) == AugValue(Py2Sui_parse_expr(g.t, value), sui_op, g.var)

AugAssign(t, trimmed, k, idx) ==
    AugTarget(get_var(t, Trim(SubSeq(trimmed, 1, idx - 1))), AugOps[k],
              Trim(SubSeq(trimmed, idx + 2, Len(trimmed))))

\* target = value, the value being parsed before the target is resolved.
AssignTarget(g, value_var) ==
    Py2Sui_emit(g.t, <<"=", " ">> \o g.var \o <<" ">> \o value_var)

AssignValue(e, target) == AssignTarget(get_var(e.t, target), e.var)

Assignment(t, trimmed, idx) ==
    AssignValue(Py2Sui_parse_expr(t, Trim(SubSeq(trimmed, idx + 1, Len(trimmed)))),
                Trim(SubSeq(trimmed, 1, idx - 1)))

\* The negated condition and the jump over the block to a new label.
CondJump(e) ==
    [e.t EXCEPT !.var_counter = @ + 1,
                !.label_counter = @ + 1,
                !.output = @ \o <<<<"!", " ">> \o NewVarName(e.t) \o <<" ">> \o e.var,
                                  <<"?", " ">> \o NewVarName(e.t) \o <<" ">>
                                     \o IntToStr(e.t.label_counter)>>]

\* if cond:
IfLine(e) ==
    [CondJump(e) EXCEPT !.indent_stack =
        Append(@, [kind |-> "If", end_label |-> e.t.label_counter])]

\* The context at the top of the stack of open blocks.
Top(t) == t.indent_stack[Len(t.indent_stack)]

\* The jump to a new end label and the label of the block that was open.
EndJump(t, end_label) ==
    [t EXCEPT !.label_counter = @ + 1,
              !.indent_stack = SubSeq(@, 1, Len(@) - 1),
              !.output = @ \o <<<<"@", " ">> \o IntToStr(t.label_counter),
                                <<":", " ">> \o IntToStr(end_label)>>]

\* The condition of an elif, new_end being the label EndJump made.
ElifCond(e, new_end) ==
    [CondJump(e) EXCEPT !.indent_stack =
        Append(@, [kind |-> "IfElse", else_label |-> e.t.label_counter,
                   end_label |-> new_end])]

\* elif cond: the context at the top of the stack is popped whatever it is,
\* and only an If context makes the line emit anything.
ElifLine(t, cond_str) ==
    IF t.indent_stack = <<>> THEN t
    ELSE IF Top(t).kind # "If"
    THEN [t EXCEPT !.indent_stack = SubSeq(@, 1, Len(@) - 1)]
    ELSE ElifCond(Py2Sui_parse_expr(EndJump(t, Top(t).end_label), cond_str),
                  t.label_counter)

\* else:
ElseLine(t) ==
    IF t.indent_stack = <<>> THEN t
    ELSE IF Top(t).kind = "If"
    THEN [EndJump(t, Top(t).end_label) EXCEPT
             !.indent_stack = Append(@, [kind |-> "Else", end_label |-> t.label_counter])]
    ELSE IF Top(t).kind = "IfElse"
    THEN [t EXCEPT !.indent_stack[Len(t.indent_stack)] =
                      [kind |-> "Else", end_label |-> Top(t).end_label],
                   !.output = @ \o <<<<"@", " ">> \o IntToStr(Top(t).end_label),
                                     <<":", " ">> \o IntToStr(Top(t).else_label)>>]
    ELSE t

\* print(args): each argument is parsed and written.
PrintArg(e) == Py2Sui_emit(e.t, <<".", " ">> \o e.var)

RECURSIVE PrintArgs(_, _, _)
PrintArgs(t, args, k) ==
    IF k > Len(args) THEN t
    ELSE PrintArgs(PrintArg(Py2Sui_parse_expr(t, args[k])), args, k + 1)

\* A line `def name(params):`, as both passes of transpile_to_sui and
\* parse_line test it, and the name the regular expressions capture.
IsDef(trimmed) ==
    /\ StartsWith(trimmed, <<"d", "e", "f", " ">>)
    /\ EndsWith(trimmed, <<":">>)
    /\ Find(trimmed, <<"(">>) > 5

DefName(trimmed) == Trim(SubSeq(trimmed, 5, Find(trimmed, <<"(">>) - 1))

\* def name(params): the function takes the next id, and the counter of
\* the temporaries starts again at 0.
DefLine(t, func_name, params) ==
    [t EXCEPT !.func_counter = @ + 1,
              !.func_map = Insert(@, func_name, t.func_counter),
              !.output = Append(@, <<"#", " ">> \o IntToStr(t.func_counter) \o <<" ">>
                                      \o IntToStr(Len(params)) \o <<" ", "{">>),
              !.is_global = FALSE,
              !.var_counter = 0,
              !.func_args = params,
              !.indent_stack = Append(@, [kind |-> "Function"])]

\* return value
ReturnValue(e) == Py2Sui_emit(e.t, <<"^", " ">> \o e.var)

ReturnLine(t, value_str) ==
    IF value_str = <<>> THEN Py2Sui_emit(t, <<"^", " ", "0">>)
    ELSE ReturnValue(Py2Sui_parse_expr(t, value_str))

\* Py2Sui::parse_line on the trimmed line.
ParseTrimmedLine(t, trimmed, aug, eq_idx) ==
    IF trimmed = <<>> \/ trimmed[1] = "#" THEN t
    ELSE IF aug > 0 THEN AugAssign(t, trimmed, aug, Find(trimmed, <<AugOps[aug], "=">>))
    ELSE IF eq_idx > 0 THEN Assignment(t, trimmed, eq_idx)
    ELSE IF StartsWith(trimmed, <<"i", "f", " ">>) /\ EndsWith(trimmed, <<":">>)
    THEN IfLine(Py2Sui_parse_expr(t, SubSeq(trimmed, 4, Len(trimmed) - 1)))
    ELSE IF StartsWith(trimmed, <<"e", "l", "i", "f", " ">>) /\ EndsWith(trimmed, <<":">>)
    THEN ElifLine(t, SubSeq(trimmed, 6, Len(trimmed) - 1))
    ELSE IF trimmed = <<"e", "l", "s", "e", ":">> THEN ElseLine(t)
    ELSE IF IsDef(trimmed) /\ Find(trimmed, <<")">>) > Find(trimmed, <<"(">>)
    THEN DefLine(t, DefName(trimmed),
                 split_args(SubSeq(trimmed, Find(trimmed, <<"(">>) + 1,
                                   Find(trimmed, <<")">>) - 1)))
    ELSE IF StartsWith(trimmed, <<"r", "e", "t", "u", "r", "n">>)
    THEN ReturnLine(t, Trim(SubSeq(trimmed, 7, Len(trimmed))))
    ELSE IF StartsWith(trimmed, <<"p", "r", "i", "n", "t", "(">>) /\ EndsWith(trimmed, <<")">>)
    THEN PrintArgs(t, split_args(SubSeq(trimmed, 7, Len(trimmed) - 1)), 1)
    ELSE IF trimmed = <<"p", "a", "s", "s">> THEN t
    ELSE IF Find(trimmed, <<"(">>) > 0 THEN Py2Sui_parse_expr(t, trimmed).t
    ELSE t

Py2Sui_parse_line(t, line) ==
    ParseTrimmedLine(t, Trim(line), AugOp(Trim(line)), find_assignment(Trim(line)))

\* get_indent: the number of leading spaces and tabs.
get_indent(line) ==
    IF \A k \in 1..Len(line) : line[k] \in {" ", "\t"} THEN Len(line)
    ELSE Least({k \in 1..Len(line) : line[k] \notin {" ", "\t"}}) - 1

\* The lines that closing the context emits.
Closing(ctx) ==
    CASE ctx.kind = "If" -> <<<<":", " ">> \o IntToStr(ctx.end_label)>>
      [] ctx.kind = "IfElse" -> <<<<":", " ">> \o IntToStr(ctx.else_label),
                                  <<":", " ">> \o IntToStr(ctx.end_label)>>
      [] ctx.kind = "Else" -> <<<<":", " ">> \o IntToStr(ctx.end_label)>>
      [] ctx.kind = "Function" -> <<<<"}">>>>

\* close_blocks: the loop ends with `break` after its first pass, so one
\* context at most is closed.  Closing a function makes the translation
\* global again and forgets the parameters.
close_blocks(t, new_indent, prev_indent) ==
    IF t.indent_stack # <<>> /\ new_indent < prev_indent
    THEN [t EXCEPT !.indent_stack = SubSeq(@, 1, Len(@) - 1),
                   !.output = @ \o Closing(Top(t)),
                   !.is_global = IF Top(t).kind = "Function" THEN TRUE ELSE @,
                   !.func_args = IF Top(t).kind = "Function" THEN <<>> ELSE @]
    ELSE t

\* The lines that the second pass of transpile_to_sui skips.
Skipped(line) == Trim(line) = <<>> \/ Trim(line)[1] = "#"

\* The body of the second pass of transpile_to_sui on one line.
TranspileLine(t, line, prev_indent) ==
    IF Skipped(line) THEN t
    ELSE Py2Sui_parse_line(close_blocks(t, get_indent(line), prev_indent), line)

\* Vec<String>::join("\n")
RECURSIVE Join(_)
Join(ls) ==
    IF ls = <<>> THEN <<>>
    ELSE IF Len(ls) = 1 THEN ls[1]
    ELSE ls[1] \o <<"\n">> \o Join(Tail(ls))

\* Py2Sui::transpile_to_sui before its passes: what it clears.  The map of
\* the functions and their counter are not among it.
TranspileReset(t) ==
    [t EXCEPT !.output = <<>>, !.var_counter = 0, !.label_counter = 0,
              !.var_map = EmptyMap, !.indent_stack = <<>>, !.is_global = TRUE,
              !.func_args = <<>>]

\* The first pass: every def line gives its name the next function id.
RECURSIVE FirstPass(_, _, _)
FirstPass(t, lines, k) ==
    IF k > Len(lines) THEN t
    ELSE IF IsDef(Trim(lines[k]))
    THEN FirstPass([t EXCEPT !.func_map = Insert(@, DefName(Trim(lines[k])),
                                                 t.func_counter),
                             !.func_counter = @ + 1],
                   lines, k + 1)
    ELSE FirstPass(t, lines, k + 1)

\* transpile_to_sui up to its second pass, before which the function
\* counter is set to 0.
BeforeSecondPass(t, lines) ==
    [FirstPass(TranspileReset(t), lines, 1) EXCEPT !.func_counter = 0]

(***************************************************************************)
(* The transpiler and the interpreter on one Python program: the program   *)
(* is given to transpile_to_sui, which takes its lines one at a time, and  *)
(* the text it returns is run with no argument.  The programs are          *)
(*                                                                         *)
(*     x = <0 or 1>                                                        *)
(*     x += 1                  (in some)                                   *)
(*     if <cond>:                                                          *)
(*         if <cond>:          (in some, the same condition, and then the  *)
(*         print(1)             print is indented once more)               *)
(*     elif <cond>:            (in some)                                   *)
(*         print(2)                                                        *)
(*     else:                   (in some)                                   *)
(*         print(3)                                                        *)
(*     print(x)                                                            *)
(*                                                                         *)
(* with the conditions x, not x, True and False.                           *)
(***************************************************************************)
CondX == <<"x">>

CondNotX == <<"n", "o", "t", " ", "x">>

CondTrue == <<"T", "r", "u", "e">>

CondFalse == <<"F", "a", "l", "s", "e">>

Conds == {CondX, CondNotX, CondTrue, CondFalse}

PyProgs ==
    [x : 0..1, aug : BOOLEAN, cond : Conds, nest : BOOLEAN, elif : Conds \cup {<<>>},
     else : BOOLEAN]

\* The line of a block that prints n.
Printing(n) == <<" ", " ", " ", " ", "p", "r", "i", "n", "t", "(">> \o NatToStr(n) \o <<")">>

PyLines(p) ==
    <<<<"x", " ", "=", " ">> \o NatToStr(p.x)>>
    \o (IF p.aug THEN <<<<"x", " ", "+", "=", " ", "1">>>> ELSE <<>>)
    \o <<<<"i", "f", " ">> \o p.cond \o <<":">>>>
    \o (IF p.nest
        THEN <<<<" ", " ", " ", " ", "i", "f", " ">> \o p.cond \o <<":">>,
               <<" ", " ", " ", " ">> \o Printing(1)>>
        ELSE <<Printing(1)>>)
    \o (IF p.elif # <<>>
        THEN <<<<"e", "l", "i", "f", " ">> \o p.elif \o <<":">>, Printing(2)>>
        ELSE <<>>)
    \o (IF p.else THEN <<<<"e", "l", "s", "e", ":">>, Printing(3)>> ELSE <<>>)
    \o <<<<"p", "r", "i", "n", "t", "(", "x", ")">>>>

PyText(p) == Join(PyLines(p))

\* What Python makes of the program: the value of x at the if, the truth of
\* a condition, the branch that runs, and the lines printed.
PyX(p) == IF p.aug THEN p.x + 1 ELSE p.x

PyTruthy(p, cond) ==
    CASE cond = CondX -> PyX(p) # 0
      [] cond = CondNotX -> PyX(p) = 0
      [] cond = CondTrue -> TRUE
      [] cond = CondFalse -> FALSE

PyBranch(p) ==
    IF PyTruthy(p, p.cond) THEN <<<<"1">>>>
    ELSE IF p.elif # <<>> /\ PyTruthy(p, p.elif) THEN <<<<"2">>>>
    ELSE IF p.else THEN <<<<"3">>>>
    ELSE <<>>

PyOutput(p) == PyBranch(p) \o <<NatToStr(PyX(p))>>

InitPy2Sui ==
    /\ checks \in BOOLEAN
    /\ global_vars = NewInterpreter(checks).global_vars
    /\ functions = NewInterpreter(checks).functions
    /\ context_stack = NewInterpreter(checks).context_stack
    /\ context = NewInterpreter(checks).context
    /\ output = NewInterpreter(checks).output
    /\ max_stack_depth = NewInterpreter(checks).max_stack_depth
    /\ frames = NewInterpreter(checks).frames
    /\ status = NewInterpreter(checks).status
    /\ result = NewInterpreter(checks).result
    /\ call = NoCall
    /\ runs_made = 0
    /\ lines_run = 0
    /\ returns = {}
    /\ debugger = NoDebugger
    /\ parser = NoSource
    /\ lexer = NoLine
    /\ py2sui = NoTranspile
    /\ sui2py = NoPython

\* Py2Sui::new().transpile_to_sui(code) on one of the programs, up to the
\* second pass.
Py2SuiTranspile ==
    /\ py2sui.at = "none"
    /\ \E p \in PyProgs :
          py2sui' = [program |-> p, source |-> PyText(p),
                     t |-> BeforeSecondPass(NewPy2Sui, Lines(PyText(p))),
                     lines |-> Lines(PyText(p)), k |-> 1, prev_indent |-> 0,
                     at |-> "lines", sui |-> <<>>, earlier |-> <<>>]
    /\ UNCHANGED <<interp, call, runs_made, lines_run, returns, debugger, parser,
                   lexer, sui2py>>

\* The second pass on its next line.
Py2SuiLine ==
    /\ py2sui.at = "lines"
    /\ py2sui.k <= Len(py2sui.lines)
    /\ py2sui' = [py2sui EXCEPT
                     !.t = TranspileLine(@, py2sui.lines[py2sui.k], py2sui.prev_indent),
                     !.prev_indent = IF Skipped(py2sui.lines[py2sui.k]) THEN @
                                     ELSE get_indent(py2sui.lines[py2sui.k]),
                     !.k = @ + 1]
    /\ UNCHANGED <<interp, call, runs_made, lines_run, returns, debugger, parser,
                   lexer, sui2py>>

\* After the last line: the blocks are closed and the output is joined.
Py2SuiReturn ==
    /\ py2sui.at = "lines"
    /\ py2sui.k > Len(py2sui.lines)
    /\ py2sui' = [py2sui EXCEPT
                     !.t = close_blocks(@, 0, py2sui.prev_indent),
                     !.sui = Join(close_blocks(py2sui.t, 0, py2sui.prev_indent).output),
                     !.at = "returned"]
    /\ UNCHANGED <<interp, call, runs_made, lines_run, returns, debugger, parser,
                   lexer, sui2py>>

\* interpreter.run(sui, &[]) on the text the transpiler returned.
RunTranspiled ==
    /\ Idle
    /\ runs_made = 0
    /\ py2sui.at = "returned"
    /\ Set(run(Cur, py2sui.sui, NoArgs))
    /\ call' = CallOf("run", py2sui.sui, NoArgs, <<>>, StateKind(Cur))
    /\ runs_made' = 1
    /\ returns' = {}
    /\ UNCHANGED <<lines_run, debugger, parser, tools>>

NextPy2Sui ==
    \/ Py2SuiTranspile
    \/ Py2SuiLine
    \/ Py2SuiReturn
    \/ RunTranspiled
    \/ ExecuteNoOp
    \/ ExecuteAssign
    \/ ExecuteArith
    \/ ExecuteLogic
    \/ ExecuteJump
    \/ ExecuteOutput
    \/ BlockReturn

SpecPy2Sui == InitPy2Sui /\ [][NextPy2Sui]_vars

(***************************************************************************)
(* Py2Sui on a module with two functions.  The Python programs are         *)
(*                                                                         *)
(*     def f():                                                            *)
(*         y = <1 or g()>                                                  *)
(*         return y                                                        *)
(*     def g():                                                            *)
(*         <y or w> = <c>                                                  *)
(*         z = <y or w> + 1                                                *)
(*         return z                                                        *)
(*     t = f()                                                             *)
(*     print(t)                                                            *)
(*     print(g())                                                          *)
(*                                                                         *)
(* and the same Py2Sui is given the program a second time once it has      *)
(* returned.                                                               *)
(***************************************************************************)
MaxLocal == 2

DefProgs == [first : {<<"1">>, <<"g", "(", ")">>}, n : {<<"y">>, <<"w">>}, c : 1..MaxLocal]

\* The line of a function body.
Body(text) == <<" ", " ", " ", " ">> \o text

DefLines(p) ==
    << <<"d", "e", "f", " ", "f", "(", ")", ":">>,
       Body(<<"y", " ", "=", " ">> \o p.first),
       Body(<<"r", "e", "t", "u", "r", "n", " ", "y">>),
       <<"d", "e", "f", " ", "g", "(", ")", ":">>,
       Body(p.n \o <<" ", "=", " ">> \o NatToStr(p.c)),
       Body(<<"z", " ", "=", " ">> \o p.n \o <<" ", "+", " ", "1">>),
       Body(<<"r", "e", "t", "u", "r", "n", " ", "z">>),
       <<"t", " ", "=", " ", "f", "(", ")">>,
       <<"p", "r", "i", "n", "t", "(", "t", ")">>,
       <<"p", "r", "i", "n", "t", "(", "g", "(", ")", ")">> >>

DefText(p) == Join(DefLines(p))

\* What Python prints: f(), which is 1 or g(), and g(), which is c + 1.
DefOutput(p) ==
    <<IF p.first = <<"1">> THEN <<"1">> ELSE NatToStr(p.c + 1), NatToStr(p.c + 1)>>

\* Py2Sui::new().transpile_to_sui(code) on one of the modules, up to the
\* second pass.
Py2SuiTranspileDefs ==
    /\ py2sui.at = "none"
    /\ \E p \in DefProgs :
          py2sui' = [program |-> p, source |-> DefText(p),
                     t |-> BeforeSecondPass(NewPy2Sui, Lines(DefText(p))),
                     lines |-> Lines(DefText(p)), k |-> 1, prev_indent |-> 0,
                     at |-> "lines", sui |-> <<>>, earlier |-> <<>>]
    /\ UNCHANGED <<interp, call, runs_made, lines_run, returns, debugger, parser,
                   lexer, sui2py>>

\* transpile_to_sui(code) once more on the Py2Sui that has returned, on the
\* same code, up to the second pass.
Py2SuiTranspileAgain ==
    /\ py2sui.at = "returned"
    /\ py2sui.earlier = <<>>
    /\ py2sui' = [py2sui EXCEPT !.t = BeforeSecondPass(@, py2sui.lines),
                                !.k = 1, !.prev_indent = 0, !.at = "lines",
                                !.sui = <<>>, !.earlier = <<py2sui.sui>>]
    /\ UNCHANGED <<interp, call, runs_made, lines_run, returns, debugger, parser,
                   lexer, sui2py>>

NextPy2SuiDefs ==
    \/ Py2SuiTranspileDefs
    \/ Py2SuiLine
    \/ Py2SuiReturn
    \/ Py2SuiTranspileAgain
    \/ RunTranspiled
    \/ ExecuteAssign
    \/ ExecuteArith
    \/ ExecuteCall
    \/ ExecuteReturn
    \/ ExecuteOutput
    \/ BlockReturn

SpecPy2SuiDefs == InitPy2Sui /\ [][NextPy2SuiDefs]_vars

(***************************************************************************)
(* Py2Sui on chains of arithmetic operators.  The Python programs assign   *)
(* `a op1 b op2 c` to a name and print the name; the operands are small    *)
(* positive integers and both operators are of one precedence level.       *)
(***************************************************************************)
MaxOperand == 3

ChainOperands == 1..MaxOperand

OpLevels == {{"+", "-"}, {"*", "/", "%"}}

ExprProgs ==
    UNION {[a : ChainOperands, op1 : level, b : ChainOperands, op2 : level,
           c : ChainOperands] :
              level \in OpLevels}

ExprLines(p) ==
    << <<"x", " ", "=", " ">> \o NatToStr(p.a) \o <<" ", p.op1, " ">> \o NatToStr(p.b)
           \o <<" ", p.op2, " ">> \o NatToStr(p.c),
       <<"p", "r", "i", "n", "t", "(", "x", ")">> >>

ExprText(p) == Join(ExprLines(p))

\* Py2Sui::new().transpile_to_sui(code) on one of the chains, up to the
\* second pass.
Py2SuiTranspileExpr ==
    /\ py2sui.at = "none"
    /\ \E p \in ExprProgs :
          py2sui' = [program |-> p, source |-> ExprText(p),
                     t |-> BeforeSecondPass(NewPy2Sui, Lines(ExprText(p))),
                     lines |-> Lines(ExprText(p)), k |-> 1, prev_indent |-> 0,
                     at |-> "lines", sui |-> <<>>, earlier |-> <<>>]
    /\ UNCHANGED <<interp, call, runs_made, lines_run, returns, debugger, parser,
                   lexer, sui2py>>

NextPy2SuiExpr ==
    \/ Py2SuiTranspileExpr
    \/ Py2SuiLine
    \/ Py2SuiReturn
    \/ RunTranspiled
    \/ ExecuteAssign
    \/ ExecuteArith
    \/ ExecuteOutput
    \/ BlockReturn

SpecPy2SuiExpr == InitPy2Sui /\ [][NextPy2SuiExpr]_vars

(***************************************************************************)
(* The Sui to Python transpiler (transpiler/sui2py.rs) on the top-level    *)
(* block.  A Python statement that transpile_instruction emits is a record *)
(* of its kind and its parts, an expression being the sequence of its      *)
(* tokens.  The arms for calls, returns, arrays, input and the foreign     *)
(* functions are left out, and so are function definitions: the programs   *)
(* given to the model have none.                                           *)
(***************************************************************************)
\* The HashSet of the labels of the block.
BlockLabels(instructions) ==
    {instructions[i].id : i \in {k \in 1..Len(instructions) :
                                    instructions[k].op = "Label"}}

\* The state numbers that the iteration over the HashSet can give the
\* labels: 1, 2, .. in any order.
StateMaps(labels) ==
    {m \in [labels -> 1..Cardinality(labels)] :
        \A a, b \in labels : a # b => m[a] # m[b]}

\* target = expr
PyAssign(target, expr) == [py |-> "=", target |-> target, expr |-> expr]

\* The Python operator of an arithmetic or a comparing instruction.
PyOperator(op) ==
    CASE op = "Add" -> <<"+">>
      [] op = "Sub" -> <<"-">>
      [] op = "Mul" -> <<"*">>
      [] op = "Div" -> <<"/">>
      [] op = "Mod" -> <<"%">>
      [] op = "Lt" -> <<"<">>
      [] op = "Gt" -> <<">">>
      [] op = "Eq" -> <<"=", "=">>

\* transpile_instruction: the statements emitted for one instruction.
transpile_instruction(instr, state_map) ==
    CASE instr.op \in {"Empty", "Comment", "Label", "Import", "FuncDef", "FuncEnd"} -> <<>>
      [] instr.op = "Assign" -> <<PyAssign(instr.target, <<instr.value>>)>>
      [] instr.op \in ArithOps ->
            <<PyAssign(instr.result, <<instr.a, PyOperator(instr.op), instr.b>>)>>
      [] instr.op \in CompareOps ->
            <<PyAssign(instr.result,
                       <<<<"1">>, <<"i", "f">>, instr.a, PyOperator(instr.op), instr.b,
                         <<"e", "l", "s", "e">>, <<"0">>>>)>>
      [] instr.op = "Not" ->
            <<PyAssign(instr.result,
                       <<<<"0">>, <<"i", "f">>, instr.a, <<"e", "l", "s", "e">>,
                         <<"1">>>>)>>
      [] instr.op \in {"And", "Or"} ->
            <<PyAssign(instr.result,
                       <<<<"1">>, <<"i", "f">>, <<"(">>, instr.a,
                         IF instr.op = "And" THEN <<"a", "n", "d">> ELSE <<"o", "r">>,
                         instr.b, <<")">>, <<"e", "l", "s", "e">>, <<"0">>>>)>>
      [] instr.op = "CondJump" ->
            IF instr.label \in DOMAIN state_map
            THEN <<[py |-> "if continue", cond |-> instr.cond,
                    state |-> state_map[instr.label]]>>
            ELSE <<>>
      [] instr.op = "Jump" ->
            IF instr.label \in DOMAIN state_map
            THEN <<[py |-> "continue", state |-> state_map[instr.label]]>>
            ELSE <<>>
      [] instr.op = "Output" -> <<[py |-> "print", value |-> instr.value]>>

\* The state that the instruction at position i is grouped under: that of
\* the last label before it, or 0.
RECURSIVE StateAt(_, _, _)
StateAt(instructions, i, state_map) ==
    IF i = 0 THEN 0
    ELSE IF instructions[i].op = "Label" THEN state_map[instructions[i].id]
    ELSE StateAt(instructions, i - 1, state_map)

\* The instructions grouped under state_id, from position i on.
RECURSIVE StateLines(_, _, _, _)
StateLines(instructions, i, state_map, state_id) ==
    IF i > Len(instructions) THEN <<>>
    ELSE (IF /\ instructions[i].op \notin {"Label", "FuncEnd"}
             /\ StateAt(instructions, i, state_map) = state_id
          THEN <<instructions[i]>>
          ELSE <<>>) \o StateLines(instructions, i + 1, state_map, state_id)

\* The statements emitted for the instructions of a state.
RECURSIVE Statements(_, _)
Statements(state_lines, state_map) ==
    IF state_lines = <<>> THEN <<>>
    ELSE transpile_instruction(state_lines[1], state_map)
         \o Statements(Tail(state_lines), state_map)

\* needs_transition, and what is emitted for it: the next state, or 0 for
\* `break`; -1 when nothing is emitted.
Transition(state_lines, state_id, last) ==
    IF state_lines = <<>>
       \/ state_lines[Len(state_lines)].op \notin {"CondJump", "Jump", "Return"}
    THEN IF state_id + 1 <= last THEN state_id + 1 ELSE 0
    ELSE -1

\* What is emitted under `if _state == state_id:`.
StateBlock(state_lines, state_map, state_id, last) ==
    [lines |-> IF state_lines = <<>> THEN <<[py |-> "pass"]>>
               ELSE Statements(state_lines, state_map),
     transition |-> Transition(state_lines, state_id, last)]

\* transpile_block with the numbering state_map of its labels: the blocks
\* of the states 0, 1, .. in this order, or with no label the statements
\* alone.
transpile_block(instructions, state_map) ==
    IF DOMAIN state_map # {}
    THEN [state_id \in 1..(Cardinality(DOMAIN state_map) + 1) |->
             StateBlock(StateLines(instructions, 1, state_map, state_id - 1),
                        state_map, state_id - 1, Cardinality(DOMAIN state_map))]
    ELSE <<[lines |-> Statements(instructions, state_map), transition |-> -1]>>

(***************************************************************************)
(* Python on the statements that Sui2Py emits, for integers: a name that   *)
(* was never assigned raises NameError, print writes the decimal digits.   *)
(***************************************************************************)
PyNameError == [ok |-> FALSE, v |-> 0]

PyInt(n) == [ok |-> TRUE, v |-> n]

\* A name or an integer literal.
PyAtom(env, tok) ==
    IF ParseI64(tok).ok THEN PyInt(ParseI64(tok).v)
    ELSE IF tok \in DOMAIN env THEN PyInt(env[tok])
    ELSE PyNameError

PyBinary(a, operator, b) ==
    IF ~a.ok \/ ~b.ok THEN PyNameError
    ELSE CASE operator = <<"+">> -> PyInt(a.v + b.v)
           [] operator = <<"-">> -> PyInt(a.v - b.v)
           [] operator = <<"*">> -> PyInt(a.v * b.v)
           [] operator = <<"<">> -> PyInt(IF a.v < b.v THEN 1 ELSE 0)
           [] operator = <<">">> -> PyInt(IF a.v > b.v THEN 1 ELSE 0)
           [] operator = <<"=", "=">> -> PyInt(IF a.v = b.v THEN 1 ELSE 0)
           [] operator = <<"a", "n", "d">> -> PyInt(IF a.v # 0 /\ b.v # 0 THEN 1 ELSE 0)
           [] operator = <<"o", "r">> -> PyInt(IF a.v # 0 \/ b.v # 0 THEN 1 ELSE 0)

\* The value of an emitted expression: an atom, a op b, 0 if a else 1,
\* 1 if a op b else 0, or 1 if (a op b) else 0.
PyEval(env, expr) ==
    CASE Len(expr) = 1 -> PyAtom(env, expr[1])
      [] Len(expr) = 3 -> PyBinary(PyAtom(env, expr[1]), expr[2], PyAtom(env, expr[3]))
      [] Len(expr) = 5 ->
            IF PyAtom(env, expr[3]).ok
            THEN PyInt(IF PyAtom(env, expr[3]).v # 0 THEN 0 ELSE 1)
            ELSE PyNameError
      [] Len(expr) = 7 -> PyBinary(PyAtom(env, expr[3]), expr[4], PyAtom(env, expr[5]))
      [] Len(expr) = 9 -> PyBinary(PyAtom(env, expr[4]), expr[5], PyAtom(env, expr[6]))

\* The run is at the top of `while True:` with _state set to state - 1.
PyContinue(p, state) == [p EXCEPT !.state = state - 1, !.at = "loop"]

\* One statement of the block in hand.
PyStatement(p, stmt, value) ==
    IF stmt.py # "pass" /\ stmt.py # "continue" /\ ~value.ok
    THEN [p EXCEPT !.at = "NameError"]
    ELSE CASE stmt.py = "pass" -> [p EXCEPT !.pc = @ + 1]
           [] stmt.py = "=" ->
                 [p EXCEPT !.env = Insert(@, stmt.target, value.v), !.pc = @ + 1]
           [] stmt.py = "print" ->
                 [p EXCEPT !.output = Append(@, IntToStr(value.v)), !.pc = @ + 1]
           [] stmt.py = "if continue" ->
                 IF value.v # 0 THEN PyContinue(p, stmt.state)
                 ELSE [p EXCEPT !.pc = @ + 1]
           [] stmt.py = "continue" -> PyContinue(p, stmt.state)

\* The value that the statement reads.
PyOperand(env, stmt) ==
    CASE stmt.py = "=" -> PyEval(env, stmt.expr)
      [] stmt.py = "print" -> PyAtom(env, stmt.value)
      [] stmt.py = "if continue" -> PyAtom(env, stmt.cond)
      [] OTHER -> PyInt(0)

\* After the last statement of a block: the transition emitted, or with
\* none the `break` after the last `if _state ==`, no other of which holds.
PyBlockEnd(p, transition) ==
    IF p.looping /\ transition > 0 THEN PyContinue(p, transition)
    ELSE [p EXCEPT !.at = "done"]

\* The top of `while True:` : `_state += 1`, then the block of that state,
\* or with none the `break` at the end of the loop.
PyLoopTop(p) ==
    IF p.state + 2 \in 1..Len(p.sections)
    THEN [p EXCEPT !.state = @ + 1, !.section = p.state + 2, !.pc = 1, !.at = "block"]
    ELSE [p EXCEPT !.state = @ + 1, !.at = "done"]

(***************************************************************************)
(* The interpreter and Python on one Sui program: the program is run with  *)
(* no argument, then given to Sui2Py, and Python runs what Sui2Py made.    *)
(***************************************************************************)
Sui2PyProgs == {ProgLoop, ProgCountUp, ProgFallThrough, ProgStraight}

InitSui2Py ==
    /\ checks \in BOOLEAN
    /\ global_vars = NewInterpreter(checks).global_vars
    /\ functions = NewInterpreter(checks).functions
    /\ context_stack = NewInterpreter(checks).context_stack
    /\ context = NewInterpreter(checks).context
    /\ output = NewInterpreter(checks).output
    /\ max_stack_depth = NewInterpreter(checks).max_stack_depth
    /\ frames = NewInterpreter(checks).frames
    /\ status = NewInterpreter(checks).status
    /\ result = NewInterpreter(checks).result
    /\ call = NoCall
    /\ runs_made = 0
    /\ lines_run = 0
    /\ returns = {}
    /\ debugger = NoDebugger
    /\ parser = NoSource
    /\ lexer = NoLine
    /\ py2sui = NoTranspile
    /\ sui2py = NoPython

\* interpreter.run(code, &[]) on one of the programs.
RunSui ==
    /\ Idle
    /\ runs_made = 0
    /\ \E code \in Sui2PyProgs :
          /\ Set(run(Cur, code, NoArgs))
          /\ call' = CallOf("run", code, NoArgs, <<>>, StateKind(Cur))
    /\ runs_made' = 1
    /\ returns' = {}
    /\ UNCHANGED <<lines_run, debugger, parser, tools>>

\* Sui2Py::new().transpile_to_python(code) on the program that was run, the
\* labels being numbered in one of the orders the HashSet can give.
Sui2PyTranspile ==
    /\ Idle
    /\ runs_made = 1
    /\ sui2py.at = "none"
    /\ \E state_map \in StateMaps(BlockLabels(Parser_parse(call.code).instructions)) :
          sui2py' = [NoPython EXCEPT
                        !.code = call.code,
                        !.sections = transpile_block(Parser_parse(call.code).instructions,
                                                     state_map),
                        !.looping = DOMAIN state_map # {},
                        !.at = "transpiled"]
    /\ UNCHANGED <<interp, call, runs_made, lines_run, returns, debugger, parser,
                   lexer, py2sui>>

PythonBecomes(p) ==
    /\ sui2py' = p
    /\ UNCHANGED <<interp, call, runs_made, lines_run, returns, debugger, parser,
                   lexer, py2sui>>

\* python3 on the text: the header, which sets g100 to the number of
\* arguments, none, then `_state = -1` or the statements alone.
PythonStart ==
    /\ sui2py.at = "transpiled"
    /\ PythonBecomes([sui2py EXCEPT
                         !.env = Insert(EmptyMap, <<"g", "1", "0", "0">>, 0),
                         !.state = -1, !.section = 1, !.pc = 1,
                         !.at = IF sui2py.looping THEN "loop" ELSE "block"])

PythonLoopTop == sui2py.at = "loop" /\ PythonBecomes(PyLoopTop(sui2py))

PythonStatement ==
    /\ sui2py.at = "block"
    /\ sui2py.pc <= Len(sui2py.sections[sui2py.section].lines)
    /\ PythonBecomes(PyStatement(sui2py, sui2py.sections[sui2py.section].lines[sui2py.pc],
                                 PyOperand(sui2py.env,
                                           sui2py.sections[sui2py.section].lines[sui2py.pc])))

PythonBlockEnd ==
    /\ sui2py.at = "block"
    /\ sui2py.pc > Len(sui2py.sections[sui2py.section].lines)
    /\ PythonBecomes(PyBlockEnd(sui2py, sui2py.sections[sui2py.section].transition))

NextSui2Py ==
    \/ RunSui
    \/ ExecuteNoOp
    \/ ExecuteAssign
    \/ ExecuteArith
    \/ ExecuteCompare
    \/ ExecuteLogic
    \/ ExecuteJump
    \/ ExecuteOutput
    \/ BlockReturn
    \/ Sui2PyTranspile
    \/ PythonStart
    \/ PythonLoopTop
    \/ PythonStatement
    \/ PythonBlockEnd

SpecSui2Py == InitSui2Py /\ [][NextSui2Py]_vars

(***************************************************************************)
(* Properties of the interpreter.                                          *)
(***************************************************************************)
\* The call has failed: an error was returned or the process has panicked.
Failed(s) == s.status = "panic" \/ s.result.kind = "Err"

\* The instruction the call in progress is at.
Instr == CurrentInstr(Cur)

\* The instruction before the cursor of the top block.
PrevInstr == TopFrame(Cur).instructions[TopFrame(Cur).i - 1]

\* The top block has just moved past an instruction of kind op.
After(op) ==
    /\ Running
    /\ TopFrame(Cur).kind = "block"
    /\ TopFrame(Cur).i > 1
    /\ TopFrame(Cur).i - 1 <= Len(TopFrame(Cur).instructions)
    /\ PrevInstr.op = op

IsVarName(tok) == tok[1] \in {"v", "g"} /\ parse_value(tok).k = "Variable"

\* The token names a v or g variable that holds an array.
HoldsArray(s, tok) == IsVarName(tok) /\ resolve(s, tok).t = "arr"

IndexInRange(s, arr, idx) ==
    /\ to_int(resolve(s, idx)) >= 0
    /\ to_int(resolve(s, idx)) < Len(resolve(s, arr).a)

\* C1: a `$` executed with fewer than max_stack_depth saved frames does not
\* fail with StackOverflow and, the function being defined, saves one more
\* frame and enters the body (so a chain reaches depth max_stack_depth); a
\* `$` executed with max_stack_depth saved frames fails with StackOverflow.
C1_DepthCap ==
    [][Executing({"Call"}) =>
         /\ (Len(context_stack) < max_stack_depth =>
               /\ ~IsStackOverflow(result')
               /\ (Instr.func_id \in DOMAIN functions =>
                     /\ status' = "running"
                     /\ Len(context_stack') = Len(context_stack) + 1))
         /\ (Len(context_stack) >= max_stack_depth =>
               /\ status' = "idle"
               /\ IsStackOverflow(result'))]_vars

\* A chain of calls has reached depth max_stack_depth >= 2 and the next call
\* has failed with StackOverflow.
C1_Witness ==
    /\ Idle
    /\ IsStackOverflow(result)
    /\ max_stack_depth = MaxDepthCap
    /\ Len(context_stack) = max_stack_depth

\* C2: after a run has failed with StackOverflow no frame is left saved (the
\* frame stack is the one the run started its outermost call with), and a
\* run_line that follows and calls a defined function below the depth cap
\* succeeds.
C2_StateKept ==
    /\ (call.api = "run" /\ Idle /\ IsStackOverflow(result) => context_stack = <<>>)
    /\ (/\ call.api = "run_line"
        /\ call.before = "overflow"
        /\ call.line = LineCallOne
        /\ 1 \in DOMAIN functions
        /\ max_stack_depth >= 1
        /\ Idle
        => result.kind = "OkLine")

\* C4: on an array held in a v or g variable, a read at an index outside
\* [0, n) assigns Integer 0 to the result variable, a write at such an index
\* changes no local, global, argument, saved frame or output line, and
\* neither fails.
C4_OutOfRange ==
    [][/\ (/\ Executing({"ArrayRead"})
           /\ HoldsArray(Cur, Instr.arr)
           /\ ~IndexInRange(Cur, Instr.arr, Instr.idx)
           /\ IsVarName(Instr.result)
           => /\ ~Failed(Cur')
              /\ resolve(Cur', Instr.result) = Integer(0))
       /\ (/\ Executing({"ArrayWrite"})
           /\ HoldsArray(Cur, Instr.arr)
           /\ ~IndexInRange(Cur, Instr.arr, Instr.idx)
           => /\ ~Failed(Cur')
              /\ UNCHANGED <<global_vars, context, context_stack, output>>)]_vars

\* An out-of-range read of an array has just stored Integer 0.
C4_Witness ==
    /\ After("ArrayRead")
    /\ HoldsArray(Cur, PrevInstr.arr)
    /\ to_int(resolve(Cur, PrevInstr.idx)) < 0
    /\ resolve(Cur, PrevInstr.result) = Integer(0)

\* C5: a write at an index within the array held in a v or g variable
\* replaces that element in the variable's own slot, so that the slot then
\* holds x at the index and its other elements as before, and changes no
\* other variable; a read at an index within the array yields the element
\* the slot holds.
C5_WriteInPlace ==
    [][/\ (/\ Executing({"ArrayWrite"})
           /\ HoldsArray(Cur, Instr.arr)
           /\ IndexInRange(Cur, Instr.arr, Instr.idx)
           => /\ ~Failed(Cur')
              /\ resolve(Cur', Instr.arr) =
                    Array([resolve(Cur, Instr.arr).a EXCEPT
                              ![to_int(resolve(Cur, Instr.idx)) + 1] =
                                  resolve(Cur, Instr.value)])
              /\ \A k \in DOMAIN global_vars :
                    \/ Instr.arr[1] = "g" /\ k = VarIndex(Instr.arr)
                    \/ global_vars'[k] = global_vars[k]
              /\ \A k \in DOMAIN context.local_vars :
                    \/ Instr.arr[1] = "v" /\ k = VarIndex(Instr.arr)
                    \/ context'.local_vars[k] = context.local_vars[k]
              /\ context'.args = context.args
              /\ UNCHANGED <<context_stack, output>>)
       /\ (/\ Executing({"ArrayRead"})
           /\ HoldsArray(Cur, Instr.arr)
           /\ IndexInRange(Cur, Instr.arr, Instr.idx)
           /\ IsVarName(Instr.result)
           => resolve(Cur', Instr.result) =
                 resolve(Cur, Instr.arr).a[to_int(resolve(Cur, Instr.idx)) + 1])]_vars

\* A write within the array has just been made and the slot holds the value.
C5_Witness ==
    /\ After("ArrayWrite")
    /\ HoldsArray(Cur, PrevInstr.arr)
    /\ IndexInRange(Cur, PrevInstr.arr, PrevInstr.idx)
    /\ resolve(Cur, PrevInstr.arr).a[to_int(resolve(Cur, PrevInstr.idx)) + 1] =
          resolve(Cur, PrevInstr.value)
    /\ resolve(Cur, PrevInstr.value) # Integer(0)

\* C6: whatever the interpreter has executed before, run starts the program
\* in the state in which an interpreter constructed just before (with the
\* same stack limit) starts it; every later step and the value returned are
\* functions of that state.
C6_RunFromFresh ==
    [][Idle /\ runs_made' = runs_made + 1 =>
         Cur' = run(set_max_stack_depth(NewInterpreter(checks), max_stack_depth),
                    call'.code, call'.args)]_vars

\* A run made just after a run that failed with StackOverflow has returned
\* its output.
C6_Witness ==
    /\ call.api = "run"
    /\ call.before = "overflow"
    /\ Idle
    /\ result.kind = "Ok"
    /\ Len(result.output) > 0

\* C8: a run of a program that parses never panics, and fails only with
\* UndefinedFunction or StackOverflow.
C8_OnlyTwoFailures ==
    call.api = "run" =>
        /\ status # "panic"
        /\ (result.kind = "Err" =>
               result.e \in {"Parse", "UndefinedFunction", "StackOverflow"})

\* The ids of the function definitions at the top level of the token lines:
\* a `#` line opens a body, a `}` line closes the innermost open one.
RECURSIVE DefIdsFrom(_, _, _, _)
DefIdsFrom(token_lines, i, depth, ids) ==
    IF i > Len(token_lines) THEN ids
    ELSE IF token_lines[i][1] = <<"#">>
    THEN DefIdsFrom(token_lines, i + 1, depth + 1,
                    IF depth = 0 THEN ids \cup {ParseI64(token_lines[i][2]).v} ELSE ids)
    ELSE IF token_lines[i][1] = <<"}">> /\ depth > 0
    THEN DefIdsFrom(token_lines, i + 1, depth - 1, ids)
    ELSE DefIdsFrom(token_lines, i + 1, depth, ids)

TopLevelDefIds(code) == DefIdsFrom(Lexer_parse(code), 1, 0, {})

\* C9: during a run, a `$` of function f executed below the depth cap fails
\* with UndefinedFunction exactly when the source has no top-level
\* definition of f, wherever in the source the definition stands; otherwise
\* it enters the body.
C9_UndefinedFunction ==
    [][Executing({"Call"}) /\ call.api = "run" /\ Len(context_stack) < max_stack_depth =>
         IF Instr.func_id \in TopLevelDefIds(call.code)
         THEN status' = "running" /\ Len(context_stack') = Len(context_stack) + 1
         ELSE /\ status' = "idle"
              /\ result' = RuntimeErr("UndefinedFunction", Instr.func_id)]_vars

\* A run has returned the result of a function defined after its call.
C9_Witness ==
    /\ call.api = "run"
    /\ call.code = ProgCallBeforeDef
    /\ Idle
    /\ result.kind = "Ok"
    /\ result.output = <<<<"4">>>>

\* C10: run starts with an empty log; a `.` appends the display string of
\* its operand at the end of the log and no other step of a call changes
\* the log; the sequence run returns is the log.
C10_OutputLog ==
    [][/\ (Idle /\ runs_made' = runs_made + 1 => output' = <<>>)
       /\ (Running =>
             IF Executing({"Output"})
             THEN output' = Append(output, Display(resolve(Cur, Instr.value)))
             ELSE output' = output)
       /\ (Running /\ status' = "idle" /\ result'.kind = "Ok" =>
             result'.output = output)]_vars

\* A run has returned the lines that a function and the top level wrote.
C10_Witness ==
    /\ call.api = "run"
    /\ call.code = ProgDescend
    /\ Idle
    /\ result.kind = "Ok"
    /\ Len(result.output) > MaxDepthCap

\* The globals at the positions from..to read as the arguments do: position
\* 101 + i as the i-th argument, an Integer if i64's parse accepts it, else
\* a Float if f64's parse accepts it, else the String itself.
ArgsRead(s, args) ==
    \A i \in 0..(Len(args) - 1) :
       Lookup(s, "g", 101 + i) =
          IF ParseI64(args[i + 1]).ok THEN Integer(ParseI64(args[i + 1]).v)
          ELSE IF ParseF64(args[i + 1]).ok THEN ParseF64(args[i + 1]).v
          ELSE String(args[i + 1])

\* C11: when run has parsed the program and is about to execute its first
\* instruction, g100 holds Integer n for the n arguments given, g(101+i)
\* holds the i-th argument as an Integer if it parses as one, else as a
\* Float if it parses as one, else as a String, and every other global
\* reads as Integer 0.
C11_ArgsStored ==
    [][Idle /\ runs_made' = runs_made + 1 /\ status' = "running" =>
         /\ Lookup(Cur', "g", 100) = Integer(Len(call'.args))
         /\ ArgsRead(Cur', call'.args)
         /\ \A k \in (-1..(103 + Len(call'.args))) \ (100..(100 + Len(call'.args))) :
               Lookup(Cur', "g", k) = Integer(0)]_vars

\* A second run, given a float and an integer, is at its first instruction
\* with the float in g101 and the integer in g102.
C11_Witness ==
    /\ call.api = "run"
    /\ runs_made = 2
    /\ Running
    /\ Len(frames) = 1
    /\ TopFrame(Cur).i = 1
    /\ Len(call.args) = 2
    /\ Lookup(Cur, "g", 100) = Integer(2)
    /\ Lookup(Cur, "g", 101).t = "float"
    /\ Lookup(Cur, "g", 102) = Integer(2)
    /\ 0 \notin DOMAIN global_vars

\* The operand tokens of an instruction.
Operands(instr) ==
    CASE instr.op \in ArithOps \cup CompareOps \cup {"And", "Or"} ->
           <<instr.result, instr.a, instr.b>>
      [] instr.op = "Not" -> <<instr.result, instr.a>>
      [] instr.op = "Assign" -> <<instr.target, instr.value>>
      [] instr.op = "CondJump" -> <<instr.cond>>
      [] instr.op = "Call" -> <<instr.result>> \o instr.args
      [] instr.op = "Return" -> <<instr.value>>
      [] instr.op = "ArrayCreate" -> <<instr.var, instr.size>>
      [] instr.op = "ArrayRead" -> <<instr.result, instr.arr, instr.idx>>
      [] instr.op = "ArrayWrite" -> <<instr.arr, instr.idx, instr.value>>
      [] instr.op = "Output" -> <<instr.value>>
      [] instr.op = "Input" -> <<instr.var>>
      [] instr.op = "RustFFI" -> <<instr.result, instr.func>> \o instr.args
      [] OTHER -> <<>>

\* The body names no g variable and has no `,`.
NoGlobalNoInput(body) ==
    \A k \in 1..Len(body) :
       /\ body[k].op # "Input"
       /\ \A j \in 1..Len(Operands(body[k])) :
             Operands(body[k])[j] = <<>> \/ Operands(body[k])[j][1] # "g"

\* The body's `R` and `P` instructions name, by a literal, a builtin other
\* than randint.
NoRandint(body) ==
    \A k \in 1..Len(body) :
       body[k].op = "RustFFI" =>
          /\ parse_value(body[k].func).k # "Variable"
          /\ LastSegment(Display(Resolved(Cur, body[k].func, parse_value(body[k].func))))
                # <<"r", "a", "n", "d", "i", "n", "t">>

\* The functions that the functions in ids call, in at most n steps.
RECURSIVE Reachable(_, _, _)
Reachable(fns, ids, n) ==
    IF n = 0 THEN ids
    ELSE Reachable(fns,
                   ids \cup UNION {{fns[id].body[k].func_id :
                                       k \in {j \in 1..Len(fns[id].body) :
                                                 fns[id].body[j].op = "Call"}} :
                                    id \in ids \cap DOMAIN fns},
                   n - 1)

\* Neither function id nor any function it calls, directly or not, names a
\* g variable, reads input or calls randint.
Pure(fns, id) ==
    \A j \in Reachable(fns, {id}, Cardinality(DOMAIN fns)) \cap DOMAIN fns :
       NoGlobalNoInput(fns[j].body) /\ NoRandint(fns[j].body)

\* C12 as stated: two calls, made since the last run began, of a function
\* whose body names no g variable and has no `,`, with equal arguments,
\* return equal values.
C12_ValueOfArgs ==
    \A r1, r2 \in returns :
       /\ r1.func_id = r2.func_id
       /\ r1.args = r2.args
       /\ r1.func_id \in DOMAIN functions
       /\ NoGlobalNoInput(functions[r1.func_id].body)
       => r1.return_val = r2.return_val

\* C12 for the functions that, with every function they call, name no g
\* variable, have no `,` and call no randint: two calls that return, made
\* with equal arguments since the last run began, return equal values, at
\* whatever depths they were made and whatever the callers' locals.
C12_PureValueOfArgs ==
    \A r1, r2 \in returns :
       /\ r1.func_id = r2.func_id
       /\ r1.args = r2.args
       /\ r1.func_id \in DOMAIN functions
       /\ Pure(functions, r1.func_id)
       => r1.return_val = r2.return_val

\* A function that is pure has returned from a call made at top level and
\* from a call made inside another function, the arguments being equal and
\* the callers' locals different.
C12_Witness ==
    \E r1, r2 \in returns :
       /\ r1.func_id = r2.func_id
       /\ r1.args = r2.args
       /\ r1.func_id \in DOMAIN functions
       /\ Pure(functions, r1.func_id)
       /\ r1.depth = 0
       /\ r2.depth > 0
       /\ r1.caller_vars # r2.caller_vars

(***************************************************************************)
(* Properties of jumps, in the interpreter and in the debugger.            *)
(***************************************************************************)
\* The cursor of a block that was at position from (counted from 1) and
\* executed a jump to label is at position to: at a Label of that id in the
\* block if the jump was taken and the block has one, else at the next
\* instruction.
LandsIn(block, from, to, label, taken) ==
    IF taken /\ \E k \in 1..Len(block) : block[k].op = "Label" /\ block[k].id = label
    THEN to \in 1..Len(block) /\ block[to].op = "Label" /\ block[to].id = label
    ELSE to = from + 1

\* The debugger executes the instruction at ip, which is a jump.
TopJump ==
    /\ debugger.loops = <<>>
    /\ call'.api \in {"step", "resume"}
    /\ debugger.ip < Len(debugger.instructions)
    /\ debugger'.ip # debugger.ip
    /\ debugger.instructions[debugger.ip + 1].instr.op \in JumpOps

TopInstrs == [k \in 1..Len(debugger.instructions) |-> debugger.instructions[k].instr]

\* C3: a `?` or `@` executed in a block leaves the block the same and moves
\* its cursor to a `:` of that id inside the block (when the jump is taken
\* and the block has one) or to the next instruction, whatever labels other
\* blocks declare: in the interpreter's execute_block, in the debugger's loop
\* over a function body, and in the debugger's step and resume at top level.
C3_JumpWithinBlock ==
    [][/\ (Executing(JumpOps) /\ TopFrame(Cur).kind = "block" =>
             /\ Len(frames') = Len(frames)
             /\ frames'[Len(frames)].instructions = TopFrame(Cur).instructions
             /\ LandsIn(TopFrame(Cur).instructions, TopFrame(Cur).i,
                        frames'[Len(frames)].i, Instr.label,
                        Instr.op = "Jump" \/ is_truthy(resolve(Cur, Instr.cond))))
       /\ (InCall /\ ~LoopEnded(debugger) /\ LoopInstr(debugger).op \in JumpOps =>
             /\ Len(debugger'.loops) = Len(debugger.loops)
             /\ TopLoop(debugger').body = TopLoop(debugger).body
             /\ LandsIn(TopLoop(debugger).body, TopLoop(debugger).fi + 1,
                        TopLoop(debugger').fi + 1, LoopInstr(debugger).label,
                        \/ LoopInstr(debugger).op = "Jump"
                        \/ is_truthy(Debugger_resolve(debugger, LoopInstr(debugger).cond))))
       /\ (TopJump =>
             /\ debugger'.instructions = debugger.instructions
             /\ debugger'.loops = <<>>
             /\ LandsIn(TopInstrs, debugger.ip + 1, debugger'.ip + 1,
                        TopInstrs[debugger.ip + 1].label,
                        \/ TopInstrs[debugger.ip + 1].op = "Jump"
                        \/ is_truthy(Debugger_resolve(debugger,
                                                      TopInstrs[debugger.ip + 1].cond))))]_vars

\* The debugger has jumped, inside a function body, over an output to the
\* body's own label, an id that the top level declares too.
C3_Witness ==
    /\ InCall
    /\ ~LoopEnded(debugger)
    /\ LoopInstr(debugger).op = "Label"
    /\ LoopInstr(debugger).id \in DOMAIN debugger.labels
    /\ TopLoop(debugger).fi > 0
    /\ TopLoop(debugger).body[TopLoop(debugger).fi].op = "Output"
    /\ debugger.output = <<>>

(***************************************************************************)
(* Properties of the debugger's breakpoints.                               *)
(***************************************************************************)
\* The top-level instruction at the cursor and the line number load gave it.
AtCursor == debugger.instructions[debugger.ip + 1]

\* The debugger has returned Breakpoint for the instruction at the cursor,
\* whose line is still a breakpoint.
PausedAtBreakpoint ==
    /\ DebuggerIdle
    /\ debugger.state = "Paused"
    /\ debugger.ip < Len(debugger.instructions)
    /\ debugger.event = DebugEvent("Breakpoint", AtCursor.line)
    /\ AtCursor.line \in debugger.breakpoints

\* C13: a resume made while the debugger is paused at a breakpoint on the
\* instruction at the cursor executes that instruction (to the end of the
\* first pass of its loop) instead of reporting the same breakpoint again.
C13_ResumeExecutes ==
    [][PausedAtBreakpoint /\ call'.api = "resume" =>
         debugger' = RunTop(AtLine([debugger EXCEPT !.state = "Running", !.api = "resume"],
                                   AtCursor.line),
                            AtCursor.instr)]_vars

\* The locals of the current frame, the globals and the output log.
Visible(d) == <<d.current_frame.locals, d.global_vars, d.output>>

\* The debugger d after the instructions executed before the step that ends
\* resume: a first pass that finds the breakpoint executes none; a later
\* pass has executed the instruction that was at the cursor, which for a
\* `$` ends with the caller's frame restored and the result assigned.
ExecutedBefore(d) ==
    IF d.loops # <<>>
    THEN Debugger_assign([d EXCEPT !.current_frame = d.call_stack[Len(d.call_stack)]],
                         TopLoop(d).result, TopLoop(d).return_val)
    ELSE IF d.api = "idle" /\ d.instructions[d.ip + 1].line \in d.breakpoints THEN d
    ELSE run_instruction(d, d.instructions[d.ip + 1].instr)

\* C14: when resume returns Breakpoint(L), the instruction at the cursor is
\* the one that load numbered L, L is a breakpoint, and the instruction has
\* not been executed: the locals, the globals and the output log are those
\* left by the instructions executed before it.
C14_BreakBeforeInstruction ==
    [][/\ debugger' # debugger
       /\ call'.api = "resume"
       /\ debugger'.api = "idle"
       /\ debugger'.event.kind = "Breakpoint"
       => /\ debugger'.state = "Paused"
          /\ debugger'.ip < Len(debugger'.instructions)
          /\ debugger'.instructions[debugger'.ip + 1].line = debugger'.event.n
          /\ debugger'.current_line = debugger'.event.n
          /\ debugger'.event.n \in debugger'.breakpoints
          /\ Visible(debugger') = Visible(ExecutedBefore(debugger))]_vars

\* resume has returned Breakpoint(2) after the call of a function: the
\* global holds the value returned and the `.` at the cursor has written
\* nothing.
C14_Witness ==
    /\ call.api = "resume"
    /\ call.code = <<>>
    /\ DebuggerIdle
    /\ debugger.event = DebugEvent("Breakpoint", 2)
    /\ debugger.ip = 1
    /\ debugger.instructions[2].instr.op = "Output"
    /\ debugger.global_vars # EmptyMap
    /\ debugger.output = <<>>

\* C15: when resume has returned Breakpoint(N), the instruction at the
\* cursor is the one that line N of the loaded source text (counted from 1,
\* as source_at counts) parses to.
C15_BreakpointOnSourceLine ==
    /\ call.api = "resume"
    /\ DebuggerIdle
    /\ debugger.event.kind = "Breakpoint"
    /\ debugger.ip < Len(debugger.instructions)
    => /\ debugger.event.n \in 1..Len(debugger.source_lines)
       /\ parse_line(tokenize_line(debugger.source_lines[debugger.event.n]),
                     debugger.event.n)
            = ParseOk(AtCursor.instr)

(***************************************************************************)
(* The debugger against the interpreter.                                   *)
(***************************************************************************)
\* The debugger has stopped on the program that the interpreter has run.
BothStopped ==
    /\ Idle
    /\ runs_made = 1
    /\ debugger.source_lines # <<>>
    /\ debugger.api = "idle"
    /\ debugger.state = "Finished"

\* C16: when the debugger, driven by step or by resume with no breakpoint,
\* has stopped on a program that the interpreter has run with no argument,
\* the output logs are equal, every global reads the same in both, and
\* both ended with an error or neither did.
C16_DebuggerAsInterpreter ==
    BothStopped =>
        /\ debugger.output = output
        /\ \A k \in DOMAIN global_vars \cup DOMAIN debugger.global_vars :
              GetOrDefault(debugger.global_vars, k) = GetOrDefault(global_vars, k)
        /\ (debugger.event.kind = "Error") = (result.kind = "Err")

(***************************************************************************)
(* Properties of the parser.                                               *)
(***************************************************************************)
\* C7: the error Parser::parse fails with for a source is in the list that
\* Parser::validate returns for it, with the same kind and the same line.
C7_ValidateHasParseError ==
    (parser.parsed # <<>> /\ parser.validated # <<>> /\ ~parser.parsed[1].ok) =>
        \E k \in 1..Len(parser.validated[1]) :
            /\ parser.validated[1][k].kind = parser.parsed[1].err.kind
            /\ parser.validated[1][k].line = parser.parsed[1].err.line


\* The error is the one that the line of the source text with the error's
\* number, counted from 1 over all lines of the text, parses to.
OffendingLine(source, err) ==
    /\ err.line \in 1..Len(Lines(source))
    /\ parse_line(tokenize_line(Lines(source)[err.line]), err.line)
         = [ok |-> FALSE, err |-> err]

\* C17: the line number of an error of a line, returned by Parser::parse or
\* listed by Parser::validate, is the number of the offending line in the
\* source text, the blank lines before it counted.
C17_ErrorLineInSource ==
    /\ (parser.parsed # <<>> /\ ~parser.parsed[1].ok
             /\ parser.parsed[1].err.kind # "UnmatchedBrace"
          => OffendingLine(parser.source, parser.parsed[1].err))
    /\ (parser.validated # <<>> =>
          \A k \in 1..Len(parser.validated[1]) :
             OffendingLine(parser.source, parser.validated[1][k]))


(***************************************************************************)
(* Properties of the lexer.                                                *)
(***************************************************************************)
\* The position of the first `;` of the line that is not inside a string
\* literal, or one past the end of the line: a string literal begins with a
\* double quote at the start of a token (boundary) and ends as the lexer's
\* scan of it ends.
RECURSIVE CommentStart(_, _, _)
CommentStart(chars, i, boundary) ==
    IF i > Len(chars) \/ chars[i] = ";" THEN i
    ELSE IF chars[i] = "\"" /\ boundary
    THEN CommentStart(chars,
                      IF StringEnd(chars, i + 1) <= Len(chars)
                      THEN StringEnd(chars, i + 1) + 1 ELSE StringEnd(chars, i + 1),
                      TRUE)
    ELSE CommentStart(chars, i + 1, IsWhitespace(chars[i]))

\* C18: the tokens of a line are the tokens of the line cut before its
\* first `;` that is not inside a string literal, whether or not whitespace
\* precedes that `;`; a `;` inside a string literal stays in its token.
C18_CommentDiscarded ==
    lexer.done =>
        lexer.tokens =
            tokenize_line(SubSeq(lexer.line, 1, CommentStart(lexer.line, 1, TRUE) - 1))

(***************************************************************************)
(* Properties of the transpiler                                            *)
(***************************************************************************)
\* The run of the text that transpile_to_sui returned has returned.
TranspiledRan == py2sui.at = "returned" /\ Idle /\ runs_made = 1

\* C19: when the text that Py2Sui made of a Python program has been run, the
\* run has ended well and its output is, line for line, what the Python
\* program prints.
C19_SameOutputAsPython ==
    TranspiledRan =>
        /\ result.kind = "Ok"
        /\ result.output = PyOutput(py2sui.program)

\* Among the lines put out: a jump `@ NewEnd` at once followed by the label
\* `: PrevEnd` that an earlier `? tmp PrevEnd` jumps to, and later the
\* label `: NewEnd`.
ElseEmitted(lines) ==
    \E j, i, k \in 1..Len(lines) :
        /\ j < i
        /\ i + 1 < k
        /\ lines[j][1] = "?"
        /\ lines[i][1] = "@"
        /\ lines[i + 1] = <<":", " ">> \o tokenize_line(lines[j])[3]
        /\ lines[k] = <<":", " ">> \o tokenize_line(lines[i])[2]

\* C20: of a program whose if has an elif or an else, the text that Py2Sui
\* returns holds, when there is an else, the jump to a new end label, the
\* label the if jumps to and later the new end label; and its run prints
\* the line of the branch that Python runs and of no other branch.
C20_OneBranchRuns ==
    (py2sui.at = "returned" /\ (py2sui.program.else \/ py2sui.program.elif # <<>>)) =>
        /\ py2sui.program.else => ElseEmitted(py2sui.t.output)
        /\ TranspiledRan =>
              /\ result.kind = "Ok"
              /\ SubSeq(result.output, 1, Len(result.output) - 1)
                    = PyBranch(py2sui.program)

\* The label that the jump of an output line names.
JumpLabel(line) == tokenize_line(line)[Len(tokenize_line(line))]

\* C21: when transpile_to_sui has returned, no block is left open, and
\* every label that a `?` or a `@` of the text jumps to is declared by a
\* `:` line of the text.
C21_EveryBlockClosed ==
    py2sui.at = "returned" =>
        /\ py2sui.t.indent_stack = <<>>
        /\ \A i \in 1..Len(py2sui.t.output) :
              py2sui.t.output[i][1] \in {"?", "@"} =>
                  \E j \in 1..Len(py2sui.t.output) :
                      py2sui.t.output[j] = <<":", " ">> \o JumpLabel(py2sui.t.output[i])

(***************************************************************************)
(* Properties of the transpiler to Python                                  *)
(***************************************************************************)
\* The interpreter has run the program and Python has ended on what Sui2Py
\* made of it.
PythonEnded ==
    /\ Idle
    /\ runs_made = 1
    /\ sui2py.at \in {"done", "NameError"}

\* C22: when the interpreter has run a program without error and Python
\* has ended on the statements Sui2Py made of it, Python has raised no
\* error and has printed the lines of the interpreter's output, in order.
C22_PythonAsInterpreter ==
    (PythonEnded /\ result.kind = "Ok") =>
        /\ sui2py.at = "done"
        /\ sui2py.output = result.output

(***************************************************************************)
(* Properties of calls and returns in the interpreter                      *)
(***************************************************************************)
\* A step of a run that enters a function, and one that returns from one.
EnteredCallee == Running /\ status' = "running" /\ Len(frames') = Len(frames) + 1

ReturnedToCaller == Running /\ status' = "running" /\ Len(frames') = Len(frames) - 1

\* The result target of the call that the frame below the top is at.
CallTarget == frames[Len(frames) - 1].instructions[frames[Len(frames) - 1].i].result

\* The locals of c are those of the frame saved, but for the variable var
\* when it is a local.
SameLocalsBut(c, saved, var) ==
    \A idx \in DOMAIN c.local_vars \cup DOMAIN saved.local_vars :
        (var[1] # "v" \/ idx # VarIndex(var)) =>
            /\ idx \in DOMAIN c.local_vars \cap DOMAIN saved.local_vars
            /\ c.local_vars[idx] = saved.local_vars[idx]

\* C23: a step that enters a function saves the caller's frame and starts
\* a frame with no locals, the returned flag unset and the arguments
\* resolved in the caller's frame; no step of the run changes a saved frame;
\* a step that returns from a function makes the frame saved last the
\* current one, with its arguments as they were and its locals as they were
\* but for the result target, which holds the callee's return value.
C23_CallFrames ==
    [][/\ EnteredCallee =>
             /\ context_stack' = Append(context_stack, context)
             /\ context'.local_vars = EmptyMap
             /\ ~context'.returned
             /\ Len(context'.args) = Len(CurrentInstr(Cur).args)
             /\ \A k \in 1..Len(context'.args) :
                   context'.args[k] = resolve(Cur, CurrentInstr(Cur).args[k])
       /\ (Running /\ status' = "running" /\ ~ReturnedToCaller) =>
             SubSeq(context_stack', 1, Len(context_stack)) = context_stack
       /\ ReturnedToCaller =>
             /\ context_stack' = SubSeq(context_stack, 1, Len(context_stack) - 1)
             /\ context'.args = context_stack[Len(context_stack)].args
             /\ context'.returned = context_stack[Len(context_stack)].returned
             /\ SameLocalsBut(context', context_stack[Len(context_stack)], CallTarget)
             /\ CallTarget[1] = "v" =>
                   /\ VarIndex(CallTarget) \in DOMAIN context'.local_vars
                   /\ context'.local_vars[VarIndex(CallTarget)] = context.return_value
      ]_vars

\* A call with arguments, made from a frame that has locals and arguments
\* of its own, has returned from a callee that had set locals.
C23_Witness ==
    \E r \in returns :
       /\ r.args # <<>>
       /\ r.depth > 0
       /\ r.caller_vars # EmptyMap
       /\ r.callee_vars # EmptyMap

\* C24: a `^` executed in a function body sets the frame's return value to
\* its operand resolved in that frame and ends the body, so that the next
\* step of the run is the return to the caller; and a step that returns to
\* a caller in a block stores the return value, which is Integer 0 when no
\* `^` was executed, in the result target, moves the caller's cursor to the
\* instruction after the `$`, and leaves the caller's returned flag unset.
C24_ReturnEndsBody ==
    [][/\ (Executing({"Return"}) /\ Len(frames) > 1 /\ status' = "running") =>
             /\ Len(frames') = Len(frames)
             /\ BlockEnded(Cur')
             /\ context'.returned
             /\ context'.return_value = resolve(Cur, CurrentInstr(Cur).value)
       /\ (Running /\ BlockEnded(Cur) /\ Len(frames) > 1 /\ status' = "running") =>
             ReturnedToCaller
       /\ ReturnedToCaller =>
             /\ ~context.returned => context.return_value = Integer(0)
             /\ CallTarget[1] \in {"v", "g"} =>
                   Lookup(Cur', CallTarget[1], VarIndex(CallTarget))
                      = context.return_value
             /\ TopFrame(Cur').i = frames[Len(frames) - 1].i + 1
             /\ ~context'.returned
      ]_vars

\* A call has returned through a `^` that other instructions of the body
\* follow.
C24_Witness == \E r \in returns : r.returned /\ r.skipped > 0

(***************************************************************************)
(* Properties of the arithmetic                                            *)
(***************************************************************************)
Magnitude(n) == IF n < 0 THEN -n ELSE n

\* The remainder of a divided by b, b not zero: of the sign of a and
\* smaller in magnitude than b.
Remainder(a, b) ==
    IF a >= 0 THEN a % Magnitude(b) ELSE -((-a) % Magnitude(b))

\* A run of `% g0 g101 g102`, `. g0` on two arguments that are integers has
\* ended.
ModuloRan ==
    /\ call.api = "run"
    /\ call.code = ProgModArgs
    /\ Len(call.args) = 2
    /\ ParseI64(call.args[1]).ok
    /\ ParseI64(call.args[2]).ok
    /\ status # "running"

\* C25: the run of `% g0 a b`, `. g0` on Integers a and b ends well, and
\* what it prints is the remainder of a divided by b, or NaN when b is zero.
C25_ExactRemainder ==
    ModuloRan =>
        /\ status = "idle"
        /\ result.kind = "Ok"
        /\ result.output =
              <<Display(IF ParseI64(call.args[2]).v = 0 THEN NaN
                        ELSE Integer(Remainder(ParseI64(call.args[1]).v,
                                               ParseI64(call.args[2]).v)))>>

(***************************************************************************)
(* Properties of Py2Sui on chains of arithmetic operators                  *)
(***************************************************************************)
\* The instruction of the interpreter for an operator of Python.
OpKind(op) ==
    CASE op = "+" -> "Add"
      [] op = "-" -> "Sub"
      [] op = "*" -> "Mul"
      [] op = "/" -> "Div"
      [] op = "%" -> "Mod"

\* (a op1 b) op2 c.
LeftAssociative(p) ==
    Arith(OpKind(p.op2),
          Arith(OpKind(p.op1), Integer(p.a), Integer(p.b), checks),
          Integer(p.c), checks)

\* C26: when the text that Py2Sui made of `x = a op1 b op2 c` and
\* `print(x)`, op1 and op2 of one precedence level, has been run, the run
\* has ended well and has printed the value of (a op1 b) op2 c.
C26_LeftAssociative ==
    TranspiledRan =>
        /\ result.kind = "Ok"
        /\ result.output = <<Display(LeftAssociative(py2sui.program))>>

(***************************************************************************)
(* Properties of the runs of programs whose jumps go forward               *)
(***************************************************************************)
\* The run has returned the output log, StackOverflow or UndefinedFunction.
ReturnedAsListed ==
    /\ Idle
    /\ \/ result.kind = "Ok"
       \/ result.kind = "Err" /\ result.e \in {"StackOverflow", "UndefinedFunction"}

\* A run that is under way comes to an end.
RunEnds == Running ~> ~Running

\* C27: a run of a program whose jumps all go forward comes to an end, and
\* the end is the return of the output log, of StackOverflow or of
\* UndefinedFunction.
C27_ForwardRunReturns == Running ~> ReturnedAsListed

(***************************************************************************)
(* Properties of the finished debugger                                     *)
(***************************************************************************)
\* What the accessors locals, globals, call_stack and output show, and ip.
Shown(d) ==
    <<d.current_frame.locals, d.global_vars, d.call_stack, d.output, d.ip>>

\* C28: a step of a call of step or resume on a debugger whose state is
\* Finished leaves the state Finished and changes neither the locals, the
\* globals, the call stack, the output log nor the cursor.
C28_FinishedStays ==
    [][(debugger.state = "Finished" /\ call'.api \in {"step", "resume"}) =>
          /\ debugger'.state = "Finished"
          /\ Shown(debugger') = Shown(debugger)]_vars

(***************************************************************************)
(* Properties of Py2Sui on a module with two functions                     *)
(***************************************************************************)
\* The Python names that the lines of the scope being translated assign or
\* read: those of module level, of f (the first function) and of g.
ScopeNames(p, t) ==
    IF t.is_global THEN {<<"t">>}
    ELSE IF t.func_counter = 1 THEN {<<"y">>}
    ELSE {p.n, <<"z">>}

\* C29: between the lines of a translation, the variable that new_var hands
\* out next is not the variable of any Python name of the scope being
\* translated.
C29_TemporaryIsNew ==
    py2sui.at = "lines" =>
        \A name \in ScopeNames(py2sui.program, py2sui.t) \cap DOMAIN py2sui.t.var_map :
            py2sui.t.var_map[name] # NewVarName(py2sui.t)

\* C30: the text that transpile_to_sui returns for a program on a Py2Sui
\* that has transpiled before is the text that the new Py2Sui returned.
C30_SameTextAgain ==
    (py2sui.at = "returned" /\ py2sui.earlier # <<>>) => py2sui.sui = py2sui.earlier[1]
====
